---- MODULE Spec2Model ----
(***************************************************************************)
(* Position reconstruction and builder attribution of hypr_ledger.         *)
(*                                                                         *)
(* Numbers.  The program computes with Python floats.  Sizes are modelled  *)
(* as integers counted in units of half the flat threshold (so the         *)
(* threshold 1e-10 of position_service.py is EPS = 2 units and a size of   *)
(* 1 unit is a non-zero size below the threshold); prices and realized     *)
(* PnL are integers; the average entry price is an exact fraction          *)
(* [n, d] in lowest terms.  Floating-point rounding is not modelled.       *)
(*                                                                         *)
(* Optional values.  Python's None is the empty tuple <<>> and a present   *)
(* value v is the one-element tuple <<v>>.                                 *)
(*                                                                         *)
(* Indices.  Fill indices are 0-based as in the program: fill index i is   *)
(* fills[i + 1] and its snapshot is history[i + 1].                        *)
(***************************************************************************)
EXTENDS Integers, Sequences, FiniteSets, TLC

VARIABLES
    pc,                    \* position of the running call
    fills,                 \* list[Fill] handed to the Engine
    coin,                  \* the requested coin, None for all coins
    builder_fill_indices,  \* Optional[set[int]]: the MatchResult
    fill_idx,              \* index of the next fill of the for loop
    net_size,              \* single-coin running net size
    avg_entry_px,          \* single-coin running average entry price
    cumulative_pnl,        \* running sum of realized PnL
    lifecycle_start_idx,   \* Optional[int]
    lifecycle_fills,       \* list[int]: indices of the current lifecycle
    coin_positions,        \* multi-coin: dict coin -> {net_size, avg_entry_px}
    coin_lifecycles,       \* multi-coin: dict coin -> list[int]
    history,               \* list[PositionState] built so far
    from_ms,               \* get_position_history: Optional[int]
    to_ms,                 \* get_position_history: Optional[int]
    builder_only,          \* get_position_history: bool
    builder_service,       \* get_position_history: is a BuilderService given
    builder_feed,          \* the BuilderFill records the Builder Feed holds
    api_idx,               \* match_fills: index of the next API fill
    matched_indices,       \* match_fills: Set[int] of matched API fills
    unmatched_builder,     \* match_fills: builder indices not yet consumed
    previous,              \* what the caller keeps of the previous Engine call
    tasks,                 \* the coroutines calling the Builder Feed
    csv_cache,             \* _csv_cache of every BuilderService instance
    resource,              \* what the stats server answers for each day
    requests,              \* number of client.get requests sent, per day
    lifecycle_intervals,   \* what get_position_lifecycles returned, if it did
    trades,                \* what get_trades returned, if it did
    http,                  \* the running _make_request call
    source                 \* the running get_user_fills call

engine_vars == <<fill_idx, net_size, avg_entry_px, cumulative_pnl,
                 lifecycle_start_idx, lifecycle_fills, coin_positions,
                 coin_lifecycles, history>>

request_vars == <<from_ms, to_ms, builder_only, builder_service, builder_feed>>

matcher_vars == <<api_idx, matched_indices, unmatched_builder>>

feed_vars == <<tasks, csv_cache, resource, requests>>

service_vars == <<lifecycle_intervals, trades, http, source>>

vars == <<pc, fills, coin, builder_fill_indices, engine_vars, request_vars,
          matcher_vars, previous, feed_vars, service_vars>>

----------------------------------------------------------------------------
(* Bounds of the model and the input values.                               *)

MaxFills == 3

Coins == {"BTC", "ETH"}
Sides == {"B", "A"}

\* sizes in model units: 0, a non-zero size below the flat threshold, and
\* two sizes above it (4 flips a position of 2)
Sizes == {0, 1, 2, 4}

\* the sizes of the fills drawn in all-coins mode when only all-coins calls
\* are made
MultiSizes == {1, 2, 4}

\* the sizes of the fills drawn in all-coins mode next to single-coin calls
EngineMultiSizes == {2, 4}

\* Price, realized PnL and timestamp of the fill at (0-based) index i.  They
\* are fixed per index: 100, 110, 120, ... with PnL 0, 0, 30, -7, ... and
\* times 10, 10, 11, 12, ... (non-decreasing, the first two fills tie).
TapePx(i) == 100 + 10 * i
TapePnl(i) == IF i < 2 THEN 0 ELSE IF i = 2 THEN 30 ELSE -7
TapeTime(i) == IF i = 0 THEN 10 ELSE 9 + i

----------------------------------------------------------------------------
(* Helpers.                                                                *)

None == <<>>

Some(v) == <<v>>

Abs(x) == IF x < 0 THEN -x ELSE x

RECURSIVE Gcd(_, _)
Gcd(a, b) == IF b = 0 THEN a ELSE Gcd(b, a % b)

\* the fraction n / d (d > 0) in lowest terms
Frac(n, d) == LET g == Gcd(Abs(n), d) IN [n |-> n \div g, d |-> d \div g]

Whole(x) == [n |-> x, d |-> 1]

\* Python's 0.0
Zero == Whole(0)

\* 1e-10 in model units
EPS == 2

\* Fill.is_buy
is_buy(fill) == fill.side = "B"

\* Fill.signed_size
signed_size(fill) == IF is_buy(fill) THEN fill.sz ELSE -fill.sz

\* Fill.realized_pnl
realized_pnl(fill) == fill.closedPnl

\* Fill.price
price(fill) == fill.px

\* PositionState.is_flat
is_flat(state) == Abs(state.netSize) < EPS

IsNone(x) == Len(x) = 0

\* the value of a present Optional
Val(x) == x[1]

\* the elements of a list
Elems(list) == {list[k] : k \in 1..Len(list)}

\* dict assignment d[key] = v
DictSet(d, key, v) ==
    [k \in DOMAIN d \cup {key} |-> IF k = key THEN v ELSE d[k]]

----------------------------------------------------------------------------
(* _reconstruct_position_history, single-coin mode: the body of the loop.  *)
(* st is the running state [net_size, avg_entry_px, lifecycle_start_idx,   *)
(* lifecycle_fills].                                                       *)

\* OpenPosition with the lifecycle of the closed position kept
OpenPositionKeepLifecycle(st, fill, idx) ==
    [net_size            |-> signed_size(fill),
     avg_entry_px        |-> Whole(price(fill)),
     lifecycle_start_idx |-> Some(idx),
     lifecycle_fills     |-> Append(st.lifecycle_fills, idx)]

\* was_flat: starting fresh position - start new lifecycle
OpenPosition(st, fill, idx) ==
    [net_size            |-> signed_size(fill),
     avg_entry_px        |-> Whole(price(fill)),
     lifecycle_start_idx |-> Some(idx),
     lifecycle_fills     |-> <<idx>>]

\* WeightedAvg taking the plain mean of the old average and the fill price
WeightedAvgUnweighted(net, avg, ssz, px, total) ==
    Frac(avg.n + px * avg.d, 2 * avg.d)

\* (abs(net_size) * avg_entry_px + abs(signed_size) * fill.price) / abs(total_size)
WeightedAvg(net, avg, ssz, px, total) ==
    Frac(Abs(net) * avg.n + Abs(ssz) * px * avg.d, avg.d * Abs(total))

\* IncreasePosition restarting the lifecycle at the adding fill
IncreasePositionRestart(st, fill, idx) ==
    LET total_size == st.net_size + signed_size(fill) IN
    [net_size            |-> total_size,
     avg_entry_px        |-> WeightedAvg(st.net_size, st.avg_entry_px,
                                         signed_size(fill), price(fill),
                                         total_size),
     lifecycle_start_idx |-> Some(idx),
     lifecycle_fills     |-> <<idx>>]

\* increasing position - update average
IncreasePosition(st, fill, idx) ==
    LET total_size == st.net_size + signed_size(fill) IN
    [net_size            |-> total_size,
     avg_entry_px        |-> WeightedAvg(st.net_size, st.avg_entry_px,
                                         signed_size(fill), price(fill),
                                         total_size),
     lifecycle_start_idx |-> st.lifecycle_start_idx,
     lifecycle_fills     |-> Append(st.lifecycle_fills, idx)]

\* DecreasePosition leaving the closing fill out of the lifecycle
DecreasePositionCloseDropsFill(st, fill, idx) ==
    LET new_size == st.net_size + signed_size(fill)
        appended == Append(st.lifecycle_fills, idx)
    IN  IF Abs(new_size) < EPS
        THEN [net_size |-> 0, avg_entry_px |-> Zero,
              lifecycle_start_idx |-> st.lifecycle_start_idx,
              lifecycle_fills |-> st.lifecycle_fills]
        ELSE IF (new_size > 0) # (st.net_size > 0)
        THEN [net_size |-> new_size, avg_entry_px |-> Whole(price(fill)),
              lifecycle_start_idx |-> st.lifecycle_start_idx,
              lifecycle_fills |-> appended]
        ELSE [net_size |-> new_size, avg_entry_px |-> st.avg_entry_px,
              lifecycle_start_idx |-> st.lifecycle_start_idx,
              lifecycle_fills |-> appended]

\* DecreasePosition keeping the old average across a flip
DecreasePositionFlipKeepsAvg(st, fill, idx) ==
    LET new_size == st.net_size + signed_size(fill)
        appended == Append(st.lifecycle_fills, idx)
    IN  IF Abs(new_size) < EPS
        THEN [net_size |-> 0, avg_entry_px |-> Zero,
              lifecycle_start_idx |-> st.lifecycle_start_idx,
              lifecycle_fills |-> appended]
        ELSE [net_size |-> new_size, avg_entry_px |-> st.avg_entry_px,
              lifecycle_start_idx |-> st.lifecycle_start_idx,
              lifecycle_fills |-> appended]

\* DecreasePosition taking the fill price on every reduction
DecreasePositionPartialTakesPrice(st, fill, idx) ==
    LET new_size == st.net_size + signed_size(fill)
        appended == Append(st.lifecycle_fills, idx)
    IN  IF Abs(new_size) < EPS
        THEN [net_size |-> 0, avg_entry_px |-> Zero,
              lifecycle_start_idx |-> st.lifecycle_start_idx,
              lifecycle_fills |-> appended]
        ELSE [net_size |-> new_size, avg_entry_px |-> Whole(price(fill)),
              lifecycle_start_idx |-> st.lifecycle_start_idx,
              lifecycle_fills |-> appended]

\* DecreasePosition starting a new lifecycle at a flip
DecreasePositionFlipRestarts(st, fill, idx) ==
    LET new_size == st.net_size + signed_size(fill)
        appended == Append(st.lifecycle_fills, idx)
    IN  IF Abs(new_size) < EPS
        THEN [net_size |-> 0, avg_entry_px |-> Zero,
              lifecycle_start_idx |-> st.lifecycle_start_idx,
              lifecycle_fills |-> appended]
        ELSE IF (new_size > 0) # (st.net_size > 0)
        THEN [net_size |-> new_size, avg_entry_px |-> Whole(price(fill)),
              lifecycle_start_idx |-> Some(idx),
              lifecycle_fills |-> <<idx>>]
        ELSE [net_size |-> new_size, avg_entry_px |-> st.avg_entry_px,
              lifecycle_start_idx |-> st.lifecycle_start_idx,
              lifecycle_fills |-> appended]

\* decreasing or flipping position
DecreasePosition(st, fill, idx) ==
    LET new_size == st.net_size + signed_size(fill)
        appended == Append(st.lifecycle_fills, idx)
    IN  IF Abs(new_size) < EPS
        THEN \* position closed - end lifecycle
             [net_size |-> 0, avg_entry_px |-> Zero,
              lifecycle_start_idx |-> st.lifecycle_start_idx,
              lifecycle_fills |-> appended]
        ELSE IF (new_size > 0) # (st.net_size > 0)
        THEN \* position flipped
             [net_size |-> new_size, avg_entry_px |-> Whole(price(fill)),
              lifecycle_start_idx |-> st.lifecycle_start_idx,
              lifecycle_fills |-> appended]
        ELSE \* partial close - avg stays same
             [net_size |-> new_size, avg_entry_px |-> st.avg_entry_px,
              lifecycle_start_idx |-> st.lifecycle_start_idx,
              lifecycle_fills |-> appended]

SameDirection(net, ssz) == (net > 0 /\ ssz > 0) \/ (net < 0 /\ ssz < 0)

ApplyFill(st, fill, idx) ==
    IF Abs(st.net_size) < EPS
    THEN OpenPosition(st, fill, idx)
    ELSE IF SameDirection(st.net_size, signed_size(fill))
    THEN IncreasePosition(st, fill, idx)
    ELSE DecreasePosition(st, fill, idx)

\* AccumulatePnl counting the realized PnL of sells only
AccumulatePnlOnSell(cum, fill) ==
    IF is_buy(fill) THEN cum ELSE cum + realized_pnl(fill)

\* cumulative_pnl += fill.realized_pnl
AccumulatePnl(cum, fill) == cum + realized_pnl(fill)

\* TaintStatus looking at the fills of the lifecycle before the current one
TaintStatusEarlierFills(indices, start_idx, lf) ==
    IF ~IsNone(indices) /\ ~IsNone(start_idx)
    THEN Some(\E k \in 1..(Len(lf) - 1) : lf[k] \notin Val(indices))
    ELSE None

\* TaintStatus looking at the last fill of the lifecycle only
TaintStatusLastOnly(indices, start_idx, lf) ==
    IF ~IsNone(indices) /\ ~IsNone(start_idx)
    THEN Some(lf[Len(lf)] \notin Val(indices))
    ELSE None

\* TaintStatus reading a missing MatchResult as the empty set
TaintStatusNoneAsEmpty(indices, start_idx, lf) ==
    IF ~IsNone(start_idx)
    THEN Some(\E idx \in Elems(lf) :
                 IsNone(indices) \/ idx \notin Val(indices))
    ELSE None

\* TaintStatus looking at the last two fills of the lifecycle only
TaintStatusLastTwo(indices, start_idx, lf) ==
    IF ~IsNone(indices) /\ ~IsNone(start_idx)
    THEN Some(\E k \in 1..Len(lf) :
                 k >= Len(lf) - 1 /\ lf[k] \notin Val(indices))
    ELSE None

\* TaintStatus clearing a lifecycle as soon as one of its fills is matched
TaintStatusAnyMatched(indices, start_idx, lf) ==
    IF ~IsNone(indices) /\ ~IsNone(start_idx)
    THEN Some(\A idx \in Elems(lf) : idx \notin Val(indices))
    ELSE None

\* taint status of the snapshot, single-coin mode
TaintStatus(indices, start_idx, lf) ==
    IF ~IsNone(indices) /\ ~IsNone(start_idx)
    THEN Some(\E idx \in Elems(lf) : idx \notin Val(indices))
    ELSE None

PositionState(time, c, net, avg, pnl, tainted) ==
    [timeMs |-> time, coin |-> c, netSize |-> net, avgEntryPx |-> avg,
     realizedPnl |-> pnl, tainted |-> tainted]

\* Emit replacing the last snapshot when the timestamp repeats
EmitMergeSameTime(hist, state) ==
    IF hist # <<>> /\ hist[Len(hist)].timeMs = state.timeMs
    THEN [hist EXCEPT ![Len(hist)] = state]
    ELSE Append(hist, state)

\* Emit carrying a tainted verdict back to the snapshots emitted since the
\* position was last flat
EmitRetaint(hist, state) ==
    IF state.tainted = Some(TRUE)
    THEN Append([k \in DOMAIN hist |->
                    IF \A j \in k..Len(hist) : hist[j].netSize # 0
                    THEN [hist[k] EXCEPT !.tainted = Some(TRUE)]
                    ELSE hist[k]],
                state)
    ELSE Append(hist, state)

\* history.append(PositionState(...))
Emit(hist, state) == Append(hist, state)

----------------------------------------------------------------------------
(* _reconstruct_multi_coin_history: the body of the loop.                  *)

\* InitCoin starting the whole dict afresh when a new coin arrives
InitCoinStartsAfresh(positions, coin_name) ==
    IF coin_name \notin DOMAIN positions
    THEN [k \in DOMAIN positions \cup {coin_name} |->
             [net_size |-> 0, avg_entry_px |-> Zero]]
    ELSE positions

\* coin_positions[coin_name] = {'net_size': 0.0, 'avg_entry_px': 0.0} if absent
InitCoin(positions, coin_name) ==
    IF coin_name \notin DOMAIN positions
    THEN DictSet(positions, coin_name, [net_size |-> 0, avg_entry_px |-> Zero])
    ELSE positions

\* the new (net_size, avg_entry_px) of the fill's coin
MultiPosition(coin_state, fill) ==
    LET net == coin_state.net_size
        avg == coin_state.avg_entry_px
        ssz == signed_size(fill)
        new_size == net + ssz
    IN  IF Abs(net) < EPS
        THEN [net_size |-> ssz, avg_entry_px |-> Whole(price(fill))]
        ELSE IF SameDirection(net, ssz)
        THEN [net_size |-> new_size,
              avg_entry_px |-> WeightedAvg(net, avg, ssz, price(fill), new_size)]
        ELSE IF Abs(new_size) < EPS
        THEN [net_size |-> 0, avg_entry_px |-> Zero]
        ELSE IF (net > 0 /\ new_size < 0) \/ (net < 0 /\ new_size > 0)
        THEN [net_size |-> new_size, avg_entry_px |-> Whole(price(fill))]
        ELSE [net_size |-> new_size, avg_entry_px |-> avg]

\* MultiLifecycles that goes on with the coin's list when the coin was flat
MultiLifecyclesNeverRestarts(lifecycles, coin_state, fill, idx) ==
    IF fill.coin \in DOMAIN lifecycles
    THEN DictSet(lifecycles, fill.coin, Append(lifecycles[fill.coin], idx))
    ELSE DictSet(lifecycles, fill.coin, <<idx>>)

\* the new coin_lifecycles: reset when the coin was flat, else append
MultiLifecycles(lifecycles, coin_state, fill, idx) ==
    LET net == coin_state.net_size
        c == fill.coin
    IN  IF Abs(net) < EPS
        THEN DictSet(lifecycles, c, <<idx>>)
        ELSE IF SameDirection(net, signed_size(fill))
        THEN DictSet(lifecycles, c, Append(lifecycles[c], idx))
        ELSE IF c \in DOMAIN lifecycles
        THEN DictSet(lifecycles, c, Append(lifecycles[c], idx))
        ELSE lifecycles

\* taint status of the snapshot, multi-coin mode
MultiTaintStatus(indices, lifecycles) ==
    IF ~IsNone(indices)
    THEN Some(\E c \in DOMAIN lifecycles :
                /\ lifecycles[c] # <<>>
                /\ \E idx \in Elems(lifecycles[c]) : idx \notin Val(indices))
    ELSE None

----------------------------------------------------------------------------
(* The Engine as a state machine: one action per loop iteration.           *)

\* if not fills: return []
ReturnEmpty ==
    /\ pc = "start"
    /\ fills = <<>>
    /\ pc' = "done"
    /\ history' = <<>>
    /\ UNCHANGED <<fills, coin, builder_fill_indices, fill_idx, net_size,
                   avg_entry_px, cumulative_pnl, lifecycle_start_idx,
                   lifecycle_fills, coin_positions, coin_lifecycles,
                   request_vars, matcher_vars, previous,
                   feed_vars, service_vars>>

\* coin is None: multi-coin mode
EnterMulti ==
    /\ pc = "start"
    /\ fills # <<>>
    /\ IsNone(coin)
    /\ pc' = "multi"
    /\ coin_positions' = <<>>
    /\ coin_lifecycles' = <<>>
    /\ history' = <<>>
    /\ cumulative_pnl' = 0
    /\ fill_idx' = 0
    /\ UNCHANGED <<fills, coin, builder_fill_indices, net_size, avg_entry_px,
                   lifecycle_start_idx, lifecycle_fills, request_vars,
                   matcher_vars, previous,
                   feed_vars, service_vars>>

\* EnterSingle with the running PnL kept from whatever ran before
EnterSingleKeepsPnl ==
    /\ pc = "start"
    /\ fills # <<>>
    /\ ~IsNone(coin)
    /\ pc' = "single"
    /\ net_size' = 0
    /\ avg_entry_px' = Zero
    /\ cumulative_pnl' = cumulative_pnl
    /\ lifecycle_start_idx' = None
    /\ lifecycle_fills' = <<>>
    /\ history' = <<>>
    /\ fill_idx' = 0
    /\ UNCHANGED <<fills, coin, builder_fill_indices, coin_positions,
                   coin_lifecycles, request_vars, matcher_vars, previous,
                   feed_vars, service_vars>>

\* single coin mode: state tracking initialised
EnterSingle ==
    /\ pc = "start"
    /\ fills # <<>>
    /\ ~IsNone(coin)
    /\ pc' = "single"
    /\ net_size' = 0
    /\ avg_entry_px' = Zero
    /\ cumulative_pnl' = 0
    /\ lifecycle_start_idx' = None
    /\ lifecycle_fills' = <<>>
    /\ history' = <<>>
    /\ fill_idx' = 0
    /\ UNCHANGED <<fills, coin, builder_fill_indices, coin_positions,
                   coin_lifecycles, request_vars, matcher_vars, previous,
                   feed_vars, service_vars>>

\* one iteration of: for fill_idx, fill in enumerate(fills)
SingleStep ==
    /\ pc = "single"
    /\ fill_idx < Len(fills)
    /\ LET fill == fills[fill_idx + 1]
           st == [net_size |-> net_size, avg_entry_px |-> avg_entry_px,
                  lifecycle_start_idx |-> lifecycle_start_idx,
                  lifecycle_fills |-> lifecycle_fills]
           new == ApplyFill(st, fill, fill_idx)
           pnl == AccumulatePnl(cumulative_pnl, fill)
           tainted == TaintStatus(builder_fill_indices,
                                  new.lifecycle_start_idx, new.lifecycle_fills)
       IN  /\ net_size' = new.net_size
           /\ avg_entry_px' = new.avg_entry_px
           /\ lifecycle_start_idx' = new.lifecycle_start_idx
           /\ lifecycle_fills' = new.lifecycle_fills
           /\ cumulative_pnl' = pnl
           /\ history' = Emit(history,
                  PositionState(fill.time, Val(coin), new.net_size,
                                new.avg_entry_px, pnl, tainted))
    /\ fill_idx' = fill_idx + 1
    /\ UNCHANGED <<pc, fills, coin, builder_fill_indices, coin_positions,
                   coin_lifecycles, request_vars, matcher_vars, previous,
                   feed_vars, service_vars>>

\* one iteration of the multi-coin loop
MultiStep ==
    /\ pc = "multi"
    /\ fill_idx < Len(fills)
    /\ LET fill == fills[fill_idx + 1]
           positions == InitCoin(coin_positions, fill.coin)
           coin_state == positions[fill.coin]
           lifecycles == MultiLifecycles(coin_lifecycles, coin_state, fill,
                                         fill_idx)
           pnl == AccumulatePnl(cumulative_pnl, fill)
           tainted == MultiTaintStatus(builder_fill_indices, lifecycles)
       IN  /\ coin_positions' =
                  DictSet(positions, fill.coin, MultiPosition(coin_state, fill))
           /\ coin_lifecycles' = lifecycles
           /\ cumulative_pnl' = pnl
           /\ history' = Emit(history,
                  PositionState(fill.time, "ALL", 0, Zero, pnl, tainted))
    /\ fill_idx' = fill_idx + 1
    /\ UNCHANGED <<pc, fills, coin, builder_fill_indices, net_size,
                   avg_entry_px, lifecycle_start_idx, lifecycle_fills,
                   request_vars, matcher_vars, previous,
                   feed_vars, service_vars>>

\* the loop is exhausted: return history
ReturnHistory ==
    /\ pc \in {"single", "multi"}
    /\ fill_idx = Len(fills)
    /\ pc' = "done"
    /\ UNCHANGED <<fills, coin, builder_fill_indices, engine_vars,
                   request_vars, matcher_vars, previous,
                   feed_vars, service_vars>>

----------------------------------------------------------------------------
(* The Engine as a function of its arguments: what a call returns.         *)

\* the locals of the single-coin loop after its first n iterations
RECURSIVE SingleLoop(_, _, _, _)
SingleLoop(fs, c, indices, n) ==
    IF n = 0
    THEN [st |-> [net_size |-> 0, avg_entry_px |-> Zero,
                  lifecycle_start_idx |-> None, lifecycle_fills |-> <<>>],
          cumulative_pnl |-> 0,
          history |-> <<>>]
    ELSE LET prev == SingleLoop(fs, c, indices, n - 1)
             fill == fs[n]
             new == ApplyFill(prev.st, fill, n - 1)
             pnl == AccumulatePnl(prev.cumulative_pnl, fill)
             tainted == TaintStatus(indices, new.lifecycle_start_idx,
                                    new.lifecycle_fills)
         IN  [st |-> new,
              cumulative_pnl |-> pnl,
              history |-> Emit(prev.history,
                  PositionState(fill.time, Val(c), new.net_size,
                                new.avg_entry_px, pnl, tainted))]

\* the locals of the multi-coin loop after its first n iterations
RECURSIVE MultiLoop(_, _, _)
MultiLoop(fs, indices, n) ==
    IF n = 0
    THEN [coin_positions |-> <<>>, coin_lifecycles |-> <<>>,
          cumulative_pnl |-> 0, history |-> <<>>]
    ELSE LET prev == MultiLoop(fs, indices, n - 1)
             fill == fs[n]
             positions == InitCoin(prev.coin_positions, fill.coin)
             coin_state == positions[fill.coin]
             lifecycles == MultiLifecycles(prev.coin_lifecycles, coin_state,
                                           fill, n - 1)
             pnl == AccumulatePnl(prev.cumulative_pnl, fill)
             tainted == MultiTaintStatus(indices, lifecycles)
         IN  [coin_positions |->
                  DictSet(positions, fill.coin, MultiPosition(coin_state, fill)),
              coin_lifecycles |-> lifecycles,
              cumulative_pnl |-> pnl,
              history |-> Emit(prev.history,
                  PositionState(fill.time, "ALL", 0, Zero, pnl, tainted))]

\* _reconstruct_position_history(fills, coin, builder_fill_indices)
reconstruct_position_history(fs, c, indices) ==
    IF fs = <<>> THEN <<>>
    ELSE IF IsNone(c) THEN MultiLoop(fs, indices, Len(fs)).history
    ELSE SingleLoop(fs, c, indices, Len(fs)).history

----------------------------------------------------------------------------
(* BuilderService: the records of a time range and match_fills.            *)

\* the records of the user within [start_ms, end_ms], for a window that lies
\* within one day whose file the server has (the day loop and the requests
\* are RunLoop and ClientGetReturns below)
GetBuilderFillsForRange(feed, user, start_ms, end_ms) ==
    SelectSeq(feed, LAMBDA fill :
        fill.user = user /\ start_ms <= fill.time_ms /\ fill.time_ms <= end_ms)

\* the direction labels containing 'Long', 'Short' and 'Open'
HasLong == {"Open Long", "Close Long", "Long > Short", "Short > Long"}
HasShort == {"Open Short", "Close Short", "Long > Short", "Short > Long"}
HasOpen == {"Open Long", "Open Short"}

\* ExpectedSide taken from Long / Short alone, whatever Open or Close says
ExpectedSideByDirection(dir) ==
    IF dir \in HasLong THEN Some("Bid")
    ELSE IF dir \in HasShort THEN Some("Ask")
    ELSE None

\* expected side from dir, None when the label names neither direction
ExpectedSide(dir) ==
    IF dir \in HasLong THEN Some(IF dir \in HasOpen THEN "Bid" ELSE "Ask")
    ELSE IF dir \in HasShort THEN Some(IF dir \in HasOpen THEN "Ask" ELSE "Bid")
    ELSE None

\* time within 1 second
MATCH_WINDOW_MS == 1000

\* the tolerance 0.0001 is 1 / TOLERANCE_INV
TOLERANCE_INV == 10000

\* WithinTolerance without the guard: a zero reference passes no candidate
WithinToleranceNoGuard(a, b) ==
    IF a > 0 THEN Abs(a - b) * TOLERANCE_INV < a ELSE FALSE

\* WithinTolerance with a tolerance of 1%
WithinToleranceOnePercent(a, b) ==
    IF a > 0 THEN Abs(a - b) * 100 < a ELSE TRUE

\* WithinTolerance accepting a difference of exactly 0.0001
WithinToleranceInclusive(a, b) ==
    IF a > 0 THEN Abs(a - b) * TOLERANCE_INV <= a ELSE TRUE

\* abs(a - b) / a < 0.0001 if a > 0 else 0 < 0.0001
WithinTolerance(a, b) ==
    IF a > 0 THEN Abs(a - b) * TOLERANCE_INV < a ELSE TRUE

\* the match criteria of one API fill and one builder fill
Matches(api_fill, builder_fill) ==
    /\ Abs(api_fill.time - builder_fill.time_ms) <= MATCH_WINDOW_MS
    /\ api_fill.coin = builder_fill.coin
    /\ WithinTolerance(price(api_fill), builder_fill.px)
    /\ WithinTolerance(Abs(signed_size(api_fill)), builder_fill.sz)
    /\ \/ IsNone(ExpectedSide(api_fill.dir))
       \/ Val(ExpectedSide(api_fill.dir)) = builder_fill.side

SetMin(S) == CHOOSE x \in S : \A y \in S : x <= y

\* the loop over the API fills from api_idx on: the first unmatched builder
\* fill (in index order) meeting the criteria is consumed
RECURSIVE MatchLoop(_, _, _, _, _)
MatchLoop(api_fills, builder_fills, i, matched, unmatched) ==
    IF i >= Len(api_fills) THEN matched
    ELSE LET candidates ==
                 {b \in unmatched :
                     Matches(api_fills[i + 1], builder_fills[b + 1])}
         IN  IF candidates = {}
             THEN MatchLoop(api_fills, builder_fills, i + 1,
                            matched, unmatched)
             ELSE MatchLoop(api_fills, builder_fills, i + 1,
                            matched \cup {i},
                            unmatched \ {SetMin(candidates)})

match_fills(api_fills, builder_fills) ==
    MatchLoop(api_fills, builder_fills, 0, {}, 0..(Len(builder_fills) - 1))

----------------------------------------------------------------------------
(* match_fills as a state machine: one action per API fill.  The API       *)
(* fills are in fills, the builder fills passed in are in builder_feed.    *)

\* the unmatched builder fills meeting the criteria for the API fill at idx
Candidates(idx, unmatched) ==
    {b \in unmatched : Matches(fills[idx + 1], builder_feed[b + 1])}

\* matched_indices = set(); unmatched_builder = set(range(len(builder_fills)))
MatchEnter ==
    /\ pc = "call_match"
    /\ pc' = "match"
    /\ api_idx' = 0
    /\ matched_indices' = {}
    /\ unmatched_builder' = 0..(Len(builder_feed) - 1)
    /\ UNCHANGED <<fills, coin, builder_fill_indices, engine_vars,
                   request_vars, previous,
                   feed_vars, service_vars>>

\* MatchStep consuming the candidate closest in time to the API fill
MatchStepClosest ==
    /\ pc = "match"
    /\ api_idx < Len(fills)
    /\ LET candidates == Candidates(api_idx, unmatched_builder)
           dist(b) == Abs(fills[api_idx + 1].time - builder_feed[b + 1].time_ms)
           closest == {b \in candidates :
                          \A c \in candidates : dist(b) <= dist(c)}
       IN  IF candidates = {}
           THEN UNCHANGED <<matched_indices, unmatched_builder>>
           ELSE /\ matched_indices' = matched_indices \cup {api_idx}
                /\ unmatched_builder' = unmatched_builder \ {SetMin(closest)}
    /\ api_idx' = api_idx + 1
    /\ UNCHANGED <<pc, fills, coin, builder_fill_indices, engine_vars,
                   request_vars, previous,
                   feed_vars, service_vars>>

\* MatchStep leaving the matched builder fill in the unmatched set
MatchStepReuses ==
    /\ pc = "match"
    /\ api_idx < Len(fills)
    /\ LET candidates == Candidates(api_idx, unmatched_builder)
       IN  IF candidates = {}
           THEN UNCHANGED <<matched_indices, unmatched_builder>>
           ELSE /\ matched_indices' = matched_indices \cup {api_idx}
                /\ unmatched_builder' = unmatched_builder
    /\ api_idx' = api_idx + 1
    /\ UNCHANGED <<pc, fills, coin, builder_fill_indices, engine_vars,
                   request_vars, previous,
                   feed_vars, service_vars>>

\* one iteration of: for api_idx, api_fill in enumerate(api_fills); the scan
\* of list(unmatched_builder) visits the indices in ascending order and
\* stops at the first one meeting the criteria
MatchStep ==
    /\ pc = "match"
    /\ api_idx < Len(fills)
    /\ LET candidates == Candidates(api_idx, unmatched_builder)
       IN  IF candidates = {}
           THEN UNCHANGED <<matched_indices, unmatched_builder>>
           ELSE /\ matched_indices' = matched_indices \cup {api_idx}
                /\ unmatched_builder' = unmatched_builder \ {SetMin(candidates)}
    /\ api_idx' = api_idx + 1
    /\ UNCHANGED <<pc, fills, coin, builder_fill_indices, engine_vars,
                   request_vars, previous,
                   feed_vars, service_vars>>

\* return matched_indices
MatchReturn ==
    /\ pc = "match"
    /\ api_idx = Len(fills)
    /\ pc' = "matched"
    /\ UNCHANGED <<fills, coin, builder_fill_indices, engine_vars,
                   request_vars, matcher_vars, previous,
                   feed_vars, service_vars>>

----------------------------------------------------------------------------
(* PositionService.get_position_history.                                   *)

\* the address the request is made for
RequestUser == "0xuser"

\* Python truthiness of an Optional[int]: None and 0 are false
Truthy(opt) == ~IsNone(opt) /\ Val(opt) # 0

\* if builder_only and builder_service and from_ms and to_ms
RunsMatcher == builder_only /\ builder_service /\ Truthy(from_ms) /\ Truthy(to_ms)

\* the indices handed to the Engine: the matched set when the Matcher runs,
\* set() when it does not, and None unless builder_only
IndicesForEngine ==
    LET indices ==
            IF RunsMatcher
            THEN match_fills(fills,
                     GetBuilderFillsForRange(builder_feed, RequestUser,
                                             Val(from_ms), Val(to_ms)))
            ELSE {}
    IN  IF builder_only THEN Some(indices) ELSE None

\* the fills are fetched, the indices computed, the Engine called
GetPositionHistory ==
    /\ pc = "request"
    /\ builder_fill_indices' = IndicesForEngine
    /\ pc' = "start"
    /\ UNCHANGED <<fills, coin, engine_vars, request_vars, matcher_vars, previous,
                   feed_vars, service_vars>>

----------------------------------------------------------------------------
(* PositionService.get_position_lifecycles.                                *)

\* the locals of the loop over history after its first n iterations
RECURSIVE LifecycleLoop(_, _)
LifecycleLoop(hist, n) ==
    IF n = 0
    THEN [lifecycles |-> <<>>, lifecycle_start |-> None, was_flat |-> TRUE]
    ELSE LET prev == LifecycleLoop(hist, n - 1)
             state == hist[n]
             flat == is_flat(state)
         IN  IF prev.was_flat /\ ~flat
             THEN [lifecycles |-> prev.lifecycles,
                   lifecycle_start |-> Some(state.timeMs),
                   was_flat |-> flat]
             ELSE IF ~prev.was_flat /\ flat /\ ~IsNone(prev.lifecycle_start)
             THEN [lifecycles |-> Append(prev.lifecycles,
                                     <<Val(prev.lifecycle_start), state.timeMs>>),
                   lifecycle_start |-> None,
                   was_flat |-> flat]
             ELSE [prev EXCEPT !.was_flat = flat]

get_position_lifecyclesDropsOpen(hist) ==
    LifecycleLoop(hist, Len(hist)).lifecycles

\* the (start, end) tuples returned for a history: the closed lifecycles of
\* the loop and the one still open at the end
get_position_lifecycles(hist) ==
    LET loop == LifecycleLoop(hist, Len(hist))
    IN  IF ~IsNone(loop.lifecycle_start) /\ ~loop.was_flat /\ hist # <<>>
        THEN Append(loop.lifecycles,
                    <<Val(loop.lifecycle_start), hist[Len(hist)].timeMs>>)
        ELSE loop.lifecycles

\* get_position_history has returned: the loop runs and the list is returned
GetPositionLifecyclesReturns ==
    /\ pc = "done"
    /\ IsNone(lifecycle_intervals)
    /\ lifecycle_intervals' = Some(get_position_lifecycles(history))
    /\ UNCHANGED <<pc, fills, coin, builder_fill_indices, engine_vars,
                   request_vars, matcher_vars, previous, feed_vars, trades,
                   http, source>>

----------------------------------------------------------------------------
(* TradeService.get_trades.                                                *)

\* config.target_builder
TargetBuilder == "0xbuilder"

\* the window the builder records are asked for: from_ms and to_ms if they
\* are given and not 0, else the times of the first and of the last fill
ActualFrom(fs, from) == IF Truthy(from) THEN Val(from) ELSE fs[1].time
ActualTo(fs, to) == IF Truthy(to) THEN Val(to) ELSE fs[Len(fs)].time

\* builder_matched_indices: empty unless builder_only, fills exist and the
\* Builder Feed has records in the window
BuilderMatchedIndices(fs, from, to, only, feed) ==
    IF only /\ fs # <<>>
    THEN LET builder_fills ==
                 GetBuilderFillsForRange(feed, RequestUser,
                                         ActualFrom(fs, from), ActualTo(fs, to))
         IN  IF builder_fills # <<>>
             THEN match_fills(fs, builder_fills)
             ELSE {}
    ELSE {}

\* the Trade made of the fill at index idx
TradeOf(fill, idx, matched, only, target_builder) ==
    LET is_builder_attributed == IF only THEN Some(idx \in matched) ELSE None
    IN  [timeMs |-> fill.time,
         coin |-> fill.coin,
         side |-> IF is_buy(fill) THEN "Buy" ELSE "Sell",
         px |-> price(fill),
         sz |-> fill.sz,
         closedPnl |-> realized_pnl(fill),
         builder |-> IF ~IsNone(is_builder_attributed)
                        /\ Val(is_builder_attributed)
                     THEN target_builder ELSE None,
         tainted |-> IF ~IsNone(is_builder_attributed)
                     THEN ~Val(is_builder_attributed) ELSE FALSE]

\* the trades before the filter of builder_only
AllTrades(fs, from, to, only, feed) ==
    LET matched == BuilderMatchedIndices(fs, from, to, only, feed)
        target_builder == IF only /\ fs # <<>> THEN Some(TargetBuilder) ELSE None
    IN  [k \in 1..Len(fs) |-> TradeOf(fs[k], k - 1, matched, only, target_builder)]

get_tradesKeepsTainted(fs, from, to, only, feed) ==
    AllTrades(fs, from, to, only, feed)

\* get_trades(user, coin, from_ms, to_ms, builder_only) for the fills the
\* Fill Feed returned
get_trades(fs, from, to, only, feed) ==
    IF only
    THEN SelectSeq(AllTrades(fs, from, to, only, feed), LAMBDA t : ~t.tainted)
    ELSE AllTrades(fs, from, to, only, feed)

\* the call of get_trades returns; get_position_history is called next
\* with the same arguments
GetTradesReturns ==
    /\ pc = "trades"
    /\ trades' = Some(get_trades(fills, from_ms, to_ms, builder_only,
                                 builder_feed))
    /\ pc' = "request"
    /\ UNCHANGED <<fills, coin, builder_fill_indices, engine_vars,
                   request_vars, matcher_vars, previous, feed_vars,
                   lifecycle_intervals, http, source>>

----------------------------------------------------------------------------
(* HyperliquidDataSource._make_request.  The sleeps are counted in halves  *)
(* of a second.                                                            *)

MAX_RETRIES == 10

\* RETRY_DELAY = 2.0 and the retry_delay = 0.5 of a 429 answer
RETRY_DELAY == 4
RATE_LIMIT_DELAY == 1

\* what one client.post attempt ends with: a response, a timeout, the
\* HTTPStatusError of a 429 or of another status, any other exception
Timeouts == {"ReadTimeout", "ConnectTimeout"}
Outcomes == {"200", "429", "500", "ConnectError"} \cup Timeouts

\* no _make_request call is running
IdleRequest ==
    [pc |-> "idle", retry_count |-> 0, attempts |-> 0, slept |-> 0,
     last |-> "none"]

CanRetryOnceMore(retry_count) == retry_count <= MAX_RETRIES

\* if retry_count < MAX_RETRIES
CanRetry(retry_count) == retry_count < MAX_RETRIES

\* the call after the attempt with the given outcome: it returns the
\* response, sleeps and calls itself with retry_count + 1, or raises
AfterAttempt(call, outcome) ==
    LET tried == [call EXCEPT !.attempts = @ + 1, !.last = outcome]
    IN  IF outcome = "200"
        THEN [tried EXCEPT !.pc = "returned"]
        ELSE IF outcome \in Timeouts /\ CanRetry(call.retry_count)
        THEN [tried EXCEPT !.retry_count = @ + 1, !.slept = @ + RETRY_DELAY]
        ELSE IF outcome = "429" /\ CanRetry(call.retry_count)
        THEN [tried EXCEPT !.retry_count = @ + 1,
                           !.slept = @ + RATE_LIMIT_DELAY]
        ELSE [tried EXCEPT !.pc = "raised"]

\* everything but the _make_request call
RequestOnly ==
    UNCHANGED <<pc, fills, coin, builder_fill_indices, engine_vars,
                request_vars, matcher_vars, previous, feed_vars,
                lifecycle_intervals, trades, source>>

\* _make_request(endpoint, payload) is called
MakeRequest ==
    /\ http.pc = "idle"
    /\ http' = [IdleRequest EXCEPT !.pc = "post"]
    /\ RequestOnly

\* await client.post(...) ends
ClientPostReturns(outcome) ==
    /\ http.pc = "post"
    /\ http' = AfterAttempt(http, outcome)
    /\ RequestOnly

----------------------------------------------------------------------------
(* HyperliquidDataSource.get_user_fills.  A page of the model holds 2      *)
(* fills where a page of the exchange holds 2000, and the call stops at    *)
(* 10 fills where the program stops at 10000.                              *)

MAX_FILLS_PER_REQUEST == 2
MAX_RECENT_FILLS == 10

\* no get_user_fills call is running and the exchange holds no fill
IdleSource ==
    [pc |-> "idle", feed |-> <<>>, start_time_ms |-> None,
     end_time_ms |-> None, coin |-> None, current_start |-> 0,
     all_fills |-> <<>>, result |-> <<>>]

\* the answer to userFillsByTime: the earliest fills of the user from
\* startTime on, up to endTime when it is sent, one page at most
UserFillsByTime(feed, start_time, end_time) ==
    LET within == SelectSeq(feed, LAMBDA f :
                      /\ start_time <= f.time
                      /\ IsNone(end_time) \/ f.time <= Val(end_time))
    IN  SubSeq(within, 1, IF Len(within) < MAX_FILLS_PER_REQUEST
                          THEN Len(within) ELSE MAX_FILLS_PER_REQUEST)

\* max(f.time for f in batch_fills)
RECURSIVE MaxTime(_)
MaxTime(list) ==
    IF Len(list) = 1 THEN list[1].time
    ELSE LET rest == MaxTime(Tail(list))
         IN  IF list[1].time >= rest THEN list[1].time ELSE rest

\* all_fills.sort(key=lambda f: f.time): a stable sort
RECURSIVE SortByTime(_)
SortByTime(list) ==
    IF list = <<>> THEN <<>>
    ELSE LET n == Len(list)
             sorted == SortByTime(SubSeq(list, 1, n - 1))
             before == SelectSeq(sorted, LAMBDA f : f.time <= list[n].time)
             after == SelectSeq(sorted, LAMBDA f : f.time > list[n].time)
         IN  before \o <<list[n]>> \o after

\* one iteration of the while loop from the answer of the request on: the
\* call goes on with the next request or leaves the loop, sorts and returns
AfterPage(call, data) ==
    LET batch_fills ==
            IF ~IsNone(call.coin)
            THEN SelectSeq(data, LAMBDA f : f.coin = Val(call.coin))
            ELSE data
        all_fills == IF data = <<>> THEN call.all_fills
                     ELSE call.all_fills \o batch_fills
        returned == [call EXCEPT !.pc = "returned", !.all_fills = all_fills,
                                 !.result = SortByTime(all_fills)]
    IN  IF data = <<>> THEN returned
        ELSE IF Len(data) < MAX_FILLS_PER_REQUEST THEN returned
        ELSE IF batch_fills = <<>> THEN returned
        ELSE IF MaxTime(batch_fills) <= call.current_start THEN returned
        ELSE IF Len(all_fills) >= MAX_RECENT_FILLS
        THEN [returned EXCEPT !.current_start = MaxTime(batch_fills) + 1]
        ELSE [call EXCEPT !.all_fills = all_fills,
                          !.current_start = MaxTime(batch_fills) + 1]

\* everything but the get_user_fills call
SourceOnly ==
    UNCHANGED <<pc, fills, coin, builder_fill_indices, engine_vars,
                request_vars, matcher_vars, previous, feed_vars,
                lifecycle_intervals, trades, http>>

\* get_user_fills(user, start_time_ms, end_time_ms, coin) is called:
\* current_start = start_time_ms or 0
GetUserFills ==
    /\ source.pc = "idle"
    /\ source' = [source EXCEPT
           !.pc = "request",
           !.current_start = IF Truthy(source.start_time_ms)
                             THEN Val(source.start_time_ms) ELSE 0]
    /\ SourceOnly

\* _make_request returns the page asked for
MakeRequestReturns ==
    /\ source.pc = "request"
    /\ source' = AfterPage(source,
                     UserFillsByTime(source.feed, source.current_start,
                                     source.end_time_ms))
    /\ SourceOnly

\* _make_request raises: the error leaves get_user_fills
MakeRequestRaises ==
    /\ source.pc = "request"
    /\ source' = [source EXCEPT !.pc = "raised"]
    /\ SourceOnly

----------------------------------------------------------------------------
(* BuilderService.fetch_builder_csv and get_builder_fills_for_range as     *)
(* coroutines.  A coroutine runs without interruption up to                *)
(* `await client.get(url)`, the only point where another one can run.      *)
(* In these calls time is counted in quarters of a day: a timestamp t      *)
(* falls on the day t \div DAY, the key of the day's CSV.                   *)

Tasks == {"t1", "t2"}

\* the BuilderService a caller was given, and the one each get_trades call
\* constructs for itself
Services == {"shared"} \cup Tasks

MaxDay == 2

Dates == 0..MaxDay

DAY == 4

\* current_date.strftime("%Y%m%d") of a UTC timestamp
DateStr(t) == t \div DAY

\* 403 and 404: the day has no file
Absent == {"403", "404"}

\* the failures caught by `except Exception`: of the request, of
\* lz4.frame.decompress and of the CSV rows
Swallowed == {"ConnectError", "ReadTimeout", "bad_lz4", "bad_csv"}

Statuses == {"200", "500"} \cup Absent \cup Swallowed

\* the rows of the day's CSV: one fill of the user and one of somebody else,
\* a quarter of a day after midnight
Payload(d) ==
    <<[time_ms |-> d * DAY + 1, user |-> RequestUser, coin |-> "BTC",
       side |-> "Bid", px |-> 100, sz |-> 2],
      [time_ms |-> d * DAY + 1, user |-> "0xother", coin |-> "BTC",
       side |-> "Ask", px |-> 100, sz |-> 2]>>

\* FetchOutcome that does not record an absent day in the cache
FetchOutcomeForgetsAbsent(status, d) ==
    IF status = "200"
    THEN [raised |-> FALSE, cached |-> TRUE, fills |-> Payload(d)]
    ELSE IF status \in Absent
    THEN [raised |-> FALSE, cached |-> FALSE, fills |-> <<>>]
    ELSE IF status \notin Swallowed
    THEN [raised |-> TRUE, cached |-> FALSE, fills |-> <<>>]
    ELSE [raised |-> FALSE, cached |-> FALSE, fills |-> <<>>]

\* what fetch_builder_csv does with the answer to its request: the parsed
\* rows, cached; [] for 403 and 404, cached; the HTTPStatusError re-raised
\* for another status; [] and nothing cached for any other exception
FetchOutcome(status, d) ==
    IF status = "200"
    THEN [raised |-> FALSE, cached |-> TRUE, fills |-> Payload(d)]
    ELSE IF status \in Absent
    THEN [raised |-> FALSE, cached |-> TRUE, fills |-> <<>>]
    ELSE IF status \notin Swallowed
    THEN [raised |-> TRUE, cached |-> FALSE, fills |-> <<>>]
    ELSE [raised |-> FALSE, cached |-> FALSE, fills |-> <<>>]

\* the day's fills of the user within [start_ms, end_ms]
UserFills(day_fills, user, start_ms, end_ms) ==
    SelectSeq(day_fills, LAMBDA fill :
        fill.user = user /\ start_ms <= fill.time_ms /\ fill.time_ms <= end_ms)

\* a coroutine that was not started
IdleTask ==
    [pc |-> "idle", op |-> "none", svc |-> "shared", date |-> 0,
     start_ms |-> 0, end_ms |-> 0, current_date |-> 0,
     all_fills |-> <<>>, result |-> None]

NoFeedCalls ==
    /\ tasks = [t \in Tasks |-> IdleTask]
    /\ csv_cache = [s \in Services |-> <<>>]
    /\ requests = [d \in Dates |-> 0]

\* the while loop as far as it runs without a request: the days found in
\* the cache are read one after the other; it stops at the first day that
\* is not cached or when current_date has passed end_date
RECURSIVE RunLoop(_, _, _, _, _)
RunLoop(cache, start_ms, end_ms, current_date, all_fills) ==
    IF current_date > end_ms
    THEN [returns |-> TRUE, current_date |-> current_date,
          all_fills |-> all_fills]
    ELSE IF DateStr(current_date) \in DOMAIN cache
    THEN RunLoop(cache, start_ms, end_ms, current_date + DAY,
                 all_fills \o UserFills(cache[DateStr(current_date)],
                                        RequestUser, start_ms, end_ms))
    ELSE [returns |-> FALSE, current_date |-> current_date,
          all_fills |-> all_fills]

\* coroutine t goes on with the loop: it returns all_fills, or sends the
\* request for the next day and waits for the answer
Continue(t, task, cache) ==
    LET r == RunLoop(cache, task.start_ms, task.end_ms, task.current_date,
                     task.all_fills)
    IN  IF r.returns
        THEN /\ tasks' = [tasks EXCEPT ![t] =
                     [task EXCEPT !.pc = "done",
                                  !.current_date = r.current_date,
                                  !.all_fills = r.all_fills,
                                  !.result = Some(r.all_fills)]]
             /\ UNCHANGED requests
        ELSE /\ tasks' = [tasks EXCEPT ![t] =
                     [task EXCEPT !.pc = "get",
                                  !.date = DateStr(r.current_date),
                                  !.current_date = r.current_date,
                                  !.all_fills = r.all_fills]]
             /\ requests' = [requests EXCEPT ![DateStr(r.current_date)] = @ + 1]

\* the rest of the program is not running
FeedOnly ==
    UNCHANGED <<pc, fills, coin, builder_fill_indices, engine_vars,
                request_vars, matcher_vars, previous, resource, service_vars>>

\* fetch_builder_csv(date) called on the shared service: answered from the
\* cache, or the request is sent
FetchBuilderCsv(t, d) ==
    /\ tasks[t].pc = "idle"
    /\ IF d \in DOMAIN csv_cache["shared"]
       THEN /\ tasks' = [tasks EXCEPT ![t] =
                    [IdleTask EXCEPT !.pc = "done", !.op = "fetch",
                                     !.date = d,
                                     !.result = Some(csv_cache["shared"][d])]]
            /\ UNCHANGED requests
       ELSE /\ tasks' = [tasks EXCEPT ![t] =
                    [IdleTask EXCEPT !.pc = "get", !.op = "fetch", !.date = d]]
            /\ requests' = [requests EXCEPT ![d] = @ + 1]
    /\ UNCHANGED csv_cache
    /\ FeedOnly

\* get_builder_fills_for_range(user, start_ms, end_ms) called on the shared
\* service
GetBuilderFillsForRangeCall(t, start_ms, end_ms) ==
    /\ tasks[t].pc = "idle"
    /\ Continue(t, [IdleTask EXCEPT !.op = "range", !.start_ms = start_ms,
                                    !.end_ms = end_ms,
                                    !.current_date = start_ms],
                csv_cache["shared"])
    /\ UNCHANGED csv_cache
    /\ FeedOnly

\* a builder-only get_trades call whose fills span [start_ms, end_ms]: it
\* constructs a BuilderService and calls get_builder_fills_for_range on it
GetTrades(t, start_ms, end_ms) ==
    /\ tasks[t].pc = "idle"
    /\ csv_cache' = [csv_cache EXCEPT ![t] = <<>>]
    /\ Continue(t, [IdleTask EXCEPT !.op = "trades", !.svc = t,
                                    !.start_ms = start_ms,
                                    !.end_ms = end_ms,
                                    !.current_date = start_ms],
                <<>>)
    /\ FeedOnly

\* the answer to the request of coroutine t arrives: fetch_builder_csv
\* returns or raises, and the loop of get_builder_fills_for_range goes on
ClientGetReturns(t) ==
    /\ tasks[t].pc = "get"
    /\ LET task == tasks[t]
           d == task.date
           out == FetchOutcome(resource[d], d)
           cache == IF out.cached
                    THEN (d :> out.fills) @@ csv_cache[task.svc]
                    ELSE csv_cache[task.svc]
       IN  /\ csv_cache' = [csv_cache EXCEPT ![task.svc] = cache]
           /\ IF out.raised
              THEN /\ tasks' = [tasks EXCEPT ![t] =
                           [task EXCEPT !.pc = "raised"]]
                   /\ UNCHANGED requests
              ELSE IF task.op = "fetch"
              THEN /\ tasks' = [tasks EXCEPT ![t] =
                           [task EXCEPT !.pc = "done",
                                        !.result = Some(out.fills)]]
                   /\ UNCHANGED requests
              ELSE Continue(t,
                       [task EXCEPT
                           !.all_fills = @ \o UserFills(out.fills, RequestUser,
                                                        task.start_ms,
                                                        task.end_ms),
                           !.current_date = @ + DAY],
                       cache)
    /\ FeedOnly

----------------------------------------------------------------------------
(* Inputs of the Engine.                                                   *)

\* the direction labels the exchange gives a buy and a sell
DirsOf(side) == IF side = "B" THEN {"Open Long", "Close Short"}
                              ELSE {"Open Short", "Close Long"}

\* the label given to the fills whose label is not read
DefaultDir(side) == IF side = "B" THEN "Open Long" ELSE "Open Short"

\* what is drawn per fill: the asset, the side, the size and the label
Shapes(coins, sizes) ==
    {[coin |-> c, side |-> sd, sz |-> z, dir |-> DefaultDir(sd)] :
        c \in coins, sd \in Sides, z \in sizes}

LabelledShapes(coins, sizes) ==
    {sh \in [coin : coins, side : Sides, sz : sizes,
             dir : DirsOf("B") \cup DirsOf("A")] : sh.dir \in DirsOf(sh.side)}

\* the Fill at index i (0-based) with the drawn shape
MakeFill(shape, i) ==
    [coin |-> shape.coin, side |-> shape.side, sz |-> shape.sz,
     dir |-> shape.dir,
     px |-> TapePx(i), closedPnl |-> TapePnl(i), time |-> TapeTime(i)]

\* the list of fills with the given shapes
ListOf(list) ==
    [k \in DOMAIN list |->
        MakeFill([coin |-> list[k].coin, side |-> list[k].side,
                  sz |-> list[k].sz, dir |-> DefaultDir(list[k].side)],
                 k - 1)]

\* the lists of at most max fills over the shapes
ListsOver(shapes, max) ==
    {[k \in DOMAIN list |-> MakeFill(list[k], k - 1)] :
        list \in UNION {[1..n -> shapes] : n \in 0..max}}

FillLists(coins, sizes) == ListsOver(Shapes(coins, sizes), MaxFills)

\* no request is being served: the Engine is called directly
NoRequest ==
    /\ from_ms = None
    /\ to_ms = None
    /\ builder_only = FALSE
    /\ builder_service = FALSE
    /\ builder_feed = <<>>

MatchResults == {None} \cup {Some(M) : M \in SUBSET (0..(MaxFills - 1))}

\* nothing was returned by the services and the Fill Feed is not called
NoServiceCalls ==
    /\ lifecycle_intervals = None
    /\ trades = None
    /\ http = IdleRequest
    /\ source = IdleSource

\* match_fills is not running and no call was made before
Fresh ==
    /\ api_idx = 0
    /\ matched_indices = {}
    /\ unmatched_builder = {}
    /\ previous = None
    /\ NoFeedCalls
    /\ resource = [d \in Dates |-> "200"]
    /\ NoServiceCalls

\* the Engine's local state before a call
Idle ==
    /\ fill_idx = 0
    /\ net_size = 0
    /\ avg_entry_px = Zero
    /\ cumulative_pnl = 0
    /\ lifecycle_start_idx = None
    /\ lifecycle_fills = <<>>
    /\ coin_positions = <<>>
    /\ coin_lifecycles = <<>>
    /\ history = <<>>

\* a call of _reconstruct_position_history(fills, coin, builder_fill_indices):
\* in single-coin mode every fill carries the requested coin
Init ==
    /\ pc = "start"
    /\ coin \in {None, Some("BTC")}
    /\ fills \in (IF IsNone(coin) THEN FillLists(Coins, EngineMultiSizes)
                                  ELSE FillLists({Val(coin)}, Sizes))
    /\ builder_fill_indices \in MatchResults
    /\ Idle
    /\ NoRequest
    /\ Fresh

Next ==
    \/ ReturnEmpty
    \/ EnterSingle
    \/ EnterMulti
    \/ SingleStep
    \/ MultiStep
    \/ ReturnHistory

Spec == Init /\ [][Next]_vars

----------------------------------------------------------------------------
(* Requests to get_position_history.  The fills are what the Fill Feed     *)
(* returns for the request: fills of the requested coin (of any coin when  *)
(* none is requested) whose times lie in the requested window.             *)

MaxHistFills == 2
MaxBuilderFills == 2

HistSizes == {2}

FromValues == {None, Some(0), Some(5)}
ToValues == {None, Some(20)}

\* builder records: at the time of the first fills or far outside the window
BuilderRecords ==
    [time_ms : {10, 5000}, user : {RequestUser}, coin : {"BTC"},
     side : {"Bid", "Ask"}, px : {100, 110}, sz : HistSizes]

BuilderFeeds == UNION {[1..n -> BuilderRecords] : n \in 0..MaxBuilderFills}

InitHist ==
    /\ pc = "request"
    /\ coin \in {None, Some("BTC")}
    /\ fills \in ListsOver(IF IsNone(coin)
                            THEN Shapes(Coins, HistSizes)
                            ELSE LabelledShapes({Val(coin)}, HistSizes),
                            MaxHistFills)
    /\ from_ms \in FromValues
    /\ to_ms \in ToValues
    /\ builder_only \in BOOLEAN
    /\ builder_service \in BOOLEAN
    /\ builder_feed \in BuilderFeeds
    /\ builder_fill_indices = None
    /\ Idle
    /\ Fresh

NextHist ==
    \/ GetPositionHistory
    \/ Next

SpecHist == InitHist /\ [][NextHist]_vars

----------------------------------------------------------------------------
(* Calls of the Engine in all-coins mode, without a MatchResult or with    *)
(* one that holds the first fill only.                                     *)

MaxAllFills == 3

InitAll ==
    /\ pc = "start"
    /\ coin = None
    /\ fills \in ListsOver(Shapes(Coins, MultiSizes), MaxAllFills)
    /\ builder_fill_indices \in {None, Some({0})}
    /\ Idle
    /\ NoRequest
    /\ Fresh

NextAll ==
    \/ ReturnEmpty
    \/ EnterMulti
    \/ MultiStep
    \/ ReturnHistory

SpecAll == InitAll /\ [][NextAll]_vars

----------------------------------------------------------------------------
(* Repeated calls of the Engine on one PositionService.  The caller keeps  *)
(* the arguments and the result of its first call (previous.first) and     *)
(* the arguments it passed to the call in progress (previous.args); the    *)
(* values the locals of an earlier call ended with stay in the variables   *)
(* until the code assigns them.                                            *)

MaxAgainFills == 3

AgainSizes == {0, 2, 4}
AgainMultiSizes == {2}

\* the arguments of the call in progress
Args == [fills |-> fills, coin |-> coin,
         builder_fill_indices |-> builder_fill_indices]

\* calls made between the first call and its repetition
OtherArgs ==
    {[fills |-> ListOf(<<[coin |-> "BTC", side |-> "A", sz |-> 4],
                         [coin |-> "BTC", side |-> "B", sz |-> 2],
                         [coin |-> "BTC", side |-> "B", sz |-> 4]>>),
      coin |-> Some("BTC"), builder_fill_indices |-> Some({1})],
     [fills |-> ListOf(<<[coin |-> "ETH", side |-> "B", sz |-> 2],
                         [coin |-> "BTC", side |-> "A", sz |-> 2],
                         [coin |-> "ETH", side |-> "B", sz |-> 2]>>),
      coin |-> None, builder_fill_indices |-> Some({0, 1})]}

InitAgain ==
    /\ pc = "start"
    /\ coin \in {None, Some("BTC")}
    /\ fills \in ListsOver(IF IsNone(coin)
                            THEN Shapes(Coins, AgainMultiSizes)
                            ELSE Shapes({Val(coin)}, AgainSizes),
                            MaxAgainFills)
    /\ builder_fill_indices \in
           {None} \cup {Some(M) : M \in SUBSET (0..(MaxAgainFills - 1))}
    /\ Idle
    /\ NoRequest
    /\ Fresh

\* the first call has returned: the caller calls again, with the same
\* arguments or with others
CallAgain ==
    /\ pc = "done"
    /\ IsNone(previous)
    /\ \E next \in {Args} \cup OtherArgs :
          /\ fills' = next.fills
          /\ coin' = next.coin
          /\ builder_fill_indices' = next.builder_fill_indices
          /\ previous' = Some([first |-> [args |-> Args, history |-> history],
                               args |-> next])
    /\ pc' = "start"
    /\ UNCHANGED <<engine_vars, request_vars, matcher_vars, feed_vars, service_vars>>

\* the call in between has returned: the first call is repeated
CallBack ==
    /\ pc = "done"
    /\ ~IsNone(previous)
    /\ Val(previous).args # Val(previous).first.args
    /\ fills' = Val(previous).first.args.fills
    /\ coin' = Val(previous).first.args.coin
    /\ builder_fill_indices' = Val(previous).first.args.builder_fill_indices
    /\ previous' = Some([Val(previous) EXCEPT !.args = Val(previous).first.args])
    /\ pc' = "start"
    /\ UNCHANGED <<engine_vars, request_vars, matcher_vars, feed_vars, service_vars>>

NextAgain ==
    \/ CallAgain
    \/ CallBack
    \/ Next

SpecAgain == InitAgain /\ [][NextAgain]_vars

----------------------------------------------------------------------------
(* Calls of match_fills.  The API fills all trade BTC at one price; the    *)
(* builder records lie 890 ms before and 100 ms after the earlier API      *)
(* time, and their prices are equal to the API price or 0.005% above it.   *)

MaxMatchFills == 2
MaxMatchRecords == 2

MatchPx == 100000

MatchApiFills ==
    {[coin |-> "BTC", side |-> sd, sz |-> 2, dir |-> DefaultDir(sd),
      px |-> MatchPx, closedPnl |-> 0, time |-> t] :
        sd \in Sides, t \in {900, 1500}}

MatchRecords ==
    [time_ms : {10, 1000}, user : {RequestUser}, coin : {"BTC"},
     side : {"Bid", "Ask"}, px : {MatchPx, MatchPx + 5}, sz : {2}]

InitMatch ==
    /\ pc = "call_match"
    /\ coin = Some("BTC")
    /\ fills \in UNION {[1..n -> MatchApiFills] : n \in 0..MaxMatchFills}
    /\ builder_feed \in UNION {[1..n -> MatchRecords] : n \in 0..MaxMatchRecords}
    /\ builder_fill_indices = None
    /\ from_ms = None
    /\ to_ms = None
    /\ builder_only = TRUE
    /\ builder_service = TRUE
    /\ Idle
    /\ Fresh

NextMatch ==
    \/ MatchEnter
    \/ MatchStep
    \/ MatchReturn

SpecMatch == InitMatch /\ [][NextMatch]_vars

----------------------------------------------------------------------------
(* Calls of match_fills around the tolerances and the direction labels.    *)
(* Here prices are counted in cents and sizes in millionths: the API       *)
(* fills trade 0.1 BTC at 50000 at time T = 10000.                         *)

MaxTolFills == 2
MaxTolRecords == 1

\* the four position labels, the two flip labels and a label that names no
\* direction
TolLabels ==
    {"Open Long", "Close Long", "Open Short", "Close Short",
     "Long > Short", "Short > Long", "Buy"}

\* the side of the fill each label belongs to
TolSide(dir) ==
    IF dir \in {"Open Long", "Close Short", "Short > Long", "Buy"}
    THEN "B" ELSE "A"

TolApiFills ==
    {[coin |-> "BTC", side |-> TolSide(dir), sz |-> 100000, dir |-> dir,
      px |-> 5000000, closedPnl |-> 0, time |-> 10000] : dir \in TolLabels}

\* builder records 500, 1000 and 1001 ms later, at 50000.01 or 50005, of
\* size 0.099991 or 0.0999, and one record of another coin
TolRecords ==
    [time_ms : {10500, 11000, 11001}, user : {RequestUser}, coin : {"BTC"},
     side : {"Bid", "Ask"}, px : {5000001, 5000500}, sz : {99991, 99900}]
    \cup {[time_ms |-> 10500, user |-> RequestUser, coin |-> "ETH",
            side |-> "Bid", px |-> 5000001, sz |-> 99991]}

InitTol ==
    /\ pc = "call_match"
    /\ coin = Some("BTC")
    /\ fills \in UNION {[1..n -> TolApiFills] : n \in 0..MaxTolFills}
    /\ builder_feed \in UNION {[1..n -> TolRecords] : n \in 0..MaxTolRecords}
    /\ builder_fill_indices = None
    /\ from_ms = None
    /\ to_ms = None
    /\ builder_only = TRUE
    /\ builder_service = TRUE
    /\ Idle
    /\ Fresh

SpecTol == InitTol /\ [][NextMatch]_vars

----------------------------------------------------------------------------
(* Calls of the Builder Feed by two coroutines.  The server answers every  *)
(* day with its file, but for at most one day.  The windows start a        *)
(* quarter or half a day into day 0 and end on day 0 or a quarter of a     *)
(* day into day 2.                                                         *)

Resources ==
    {[d \in Dates |-> IF d = bad THEN status ELSE "200"] :
        bad \in Dates, status \in Statuses}

WindowStarts == {1, 2}

WindowEnds == {2, 9}

InitFeed ==
    /\ pc = "serving"
    /\ fills = <<>>
    /\ coin = None
    /\ builder_fill_indices = None
    /\ Idle
    /\ NoRequest
    /\ api_idx = 0
    /\ matched_indices = {}
    /\ unmatched_builder = {}
    /\ previous = None
    /\ NoFeedCalls
    /\ resource \in Resources
    /\ NoServiceCalls

NextFeed ==
    \E t \in Tasks :
        \/ \E d \in Dates : FetchBuilderCsv(t, d)
        \/ \E start_ms \in WindowStarts, end_ms \in WindowEnds :
               GetBuilderFillsForRangeCall(t, start_ms, end_ms)
        \/ \E start_ms \in WindowStarts, end_ms \in WindowEnds :
               GetTrades(t, start_ms, end_ms)
        \/ ClientGetReturns(t)

SpecFeed == InitFeed /\ [][NextFeed]_vars

----------------------------------------------------------------------------
(* Calls of the Builder Feed while the server's files change: the file of  *)
(* a day that was absent is published, and a file that was there is        *)
(* withdrawn.                                                              *)

\* while a call waits for the answer for day d, the stats server starts to
\* answer 200 for it instead of 404, or 404 instead of 200
ServerChanges(d) ==
    /\ \E t \in Tasks : tasks[t].pc = "get" /\ tasks[t].date = d
    /\ resource[d] \in {"200", "404"}
    /\ resource' = [resource EXCEPT ![d] = IF @ = "200" THEN "404" ELSE "200"]
    /\ UNCHANGED <<pc, fills, coin, builder_fill_indices, engine_vars,
                   request_vars, matcher_vars, previous, tasks, csv_cache,
                   requests, service_vars>>

\* the answers of the server at the start: 200 for every day but for at
\* most one, which is absent, a server error or a timeout
InitLive ==
    /\ InitFeed
    /\ \A d \in Dates : resource[d] \in {"200", "404", "500", "ReadTimeout"}

NextLive ==
    \/ NextFeed
    \/ \E d \in Dates : ServerChanges(d)

SpecLive == InitLive /\ [][NextLive]_vars

----------------------------------------------------------------------------
(* Calls of match_fills with API fills of price 0 or size 0.  Prices are   *)
(* counted in cents and sizes in millionths, as above.                     *)

MaxZeroFills == 1
MaxZeroRecords == 2

\* Open Long fills at time 10000: price 50000 or 0, size 0.1 or 0
ZeroApiFills ==
    [coin : {"BTC"}, side : {"B"}, sz : {0, 100000}, dir : {"Open Long"},
     px : {0, 5000000}, closedPnl : {0}, time : {10000}]

\* builder records 500 or 1001 ms later, at 50000.01 or 51000, of size
\* 0.099991 or 0.05
ZeroRecords ==
    [time_ms : {10500, 11001}, user : {RequestUser}, coin : {"BTC"},
     side : {"Bid", "Ask"}, px : {5000001, 5100000}, sz : {99991, 50000}]

InitZero ==
    /\ pc = "call_match"
    /\ coin = Some("BTC")
    /\ fills \in UNION {[1..n -> ZeroApiFills] : n \in 0..MaxZeroFills}
    /\ builder_feed \in UNION {[1..n -> ZeroRecords] : n \in 0..MaxZeroRecords}
    /\ builder_fill_indices = None
    /\ from_ms = None
    /\ to_ms = None
    /\ builder_only = TRUE
    /\ builder_service = TRUE
    /\ Idle
    /\ Fresh

SpecZero == InitZero /\ [][NextMatch]_vars

----------------------------------------------------------------------------
(* Calls of the Engine on fills of one coin, for that coin and for all     *)
(* coins.                                                                  *)

MaxOneFills == 3

InitOne ==
    /\ pc = "start"
    /\ coin \in {None, Some("BTC")}
    /\ fills \in ListsOver(Shapes({"BTC"}, Sizes), MaxOneFills)
    /\ builder_fill_indices \in
           {None} \cup {Some(M) : M \in SUBSET (0..(MaxOneFills - 1))}
    /\ Idle
    /\ NoRequest
    /\ Fresh

SpecOne == InitOne /\ [][Next]_vars

----------------------------------------------------------------------------
(* Calls of get_position_lifecycles(user, coin): the history of the coin   *)
(* is requested without a window and without builder data, then cut into  *)
(* (start, end) tuples.                                                    *)

MaxCycleFills == 4

InitCycles ==
    /\ pc = "request"
    /\ coin = Some("BTC")
    /\ fills \in ListsOver(Shapes({"BTC"}, Sizes), MaxCycleFills)
    /\ builder_fill_indices = None
    /\ Idle
    /\ NoRequest
    /\ Fresh

NextCycles ==
    \/ GetPositionHistory
    \/ ReturnEmpty
    \/ EnterSingle
    \/ SingleStep
    \/ ReturnHistory
    \/ GetPositionLifecyclesReturns

SpecCycles == InitCycles /\ [][NextCycles]_vars

----------------------------------------------------------------------------
(* Calls of get_trades followed by get_position_history for the same       *)
(* user, coin, window and builder records, with a BuilderService given.    *)

MaxTradeFills == 2
MaxTradeRecords == 2

TradeSizes == {2}

\* builder records at the prices of the first two fills, at their time or
\* two milliseconds later
TradeRecords ==
    [time_ms : {10, 12}, user : {RequestUser}, coin : {"BTC"},
     side : {"Bid"}, px : {100, 110}, sz : TradeSizes]

InitTrades ==
    /\ pc = "trades"
    /\ coin = Some("BTC")
    /\ fills \in ListsOver(LabelledShapes({"BTC"}, TradeSizes), MaxTradeFills)
    /\ from_ms \in {None, Some(5)}
    /\ to_ms \in {None, Some(20)}
    /\ builder_only \in BOOLEAN
    /\ builder_service = TRUE
    /\ builder_feed \in UNION {[1..n -> TradeRecords] : n \in 0..MaxTradeRecords}
    /\ builder_fill_indices = None
    /\ Idle
    /\ Fresh

NextTrades ==
    \/ GetTradesReturns
    \/ GetPositionHistory
    \/ ReturnEmpty
    \/ EnterSingle
    \/ SingleStep
    \/ ReturnHistory

SpecTrades == InitTrades /\ [][NextTrades]_vars

----------------------------------------------------------------------------
(* One call of _make_request; every attempt ends.                          *)

InitRetry ==
    /\ pc = "start"
    /\ coin = None
    /\ fills = <<>>
    /\ builder_fill_indices = None
    /\ Idle
    /\ NoRequest
    /\ Fresh

NextRetry ==
    \/ MakeRequest
    \/ \E outcome \in Outcomes : ClientPostReturns(outcome)

SpecRetry == InitRetry /\ [][NextRetry]_vars /\ WF_vars(NextRetry)

----------------------------------------------------------------------------
(* Calls of get_user_fills.  The exchange holds the fills of the user in   *)
(* time order; a fill is known by its tid.                                 *)

MaxFeedFills == 4

FeedTimes == {10, 11, 12}

\* the fills the exchange can hold: times ascending, tid in feed order
ExchangeFeeds ==
    {feed \in UNION {[1..n -> [tid : 1..MaxFeedFills, coin : Coins,
                               time : FeedTimes]] : n \in 0..MaxFeedFills} :
        /\ \A k \in DOMAIN feed : feed[k].tid = k
        /\ \A k \in 1..(Len(feed) - 1) : feed[k].time <= feed[k + 1].time}

InitSource ==
    /\ pc = "start"
    /\ coin = None
    /\ fills = <<>>
    /\ builder_fill_indices = None
    /\ Idle
    /\ NoRequest
    /\ api_idx = 0
    /\ matched_indices = {}
    /\ unmatched_builder = {}
    /\ previous = None
    /\ NoFeedCalls
    /\ resource = [d \in Dates |-> "200"]
    /\ lifecycle_intervals = None
    /\ trades = None
    /\ http = IdleRequest
    /\ \E feed \in ExchangeFeeds :
       \E start_time_ms \in {None, Some(11)} :
       \E end_time_ms \in {None, Some(11)} :
       \E c \in {None, Some("BTC")} :
           source = [IdleSource EXCEPT !.feed = feed,
                                       !.start_time_ms = start_time_ms,
                                       !.end_time_ms = end_time_ms,
                                       !.coin = c]

NextSource ==
    \/ GetUserFills
    \/ MakeRequestReturns
    \/ MakeRequestRaises

SpecSource == InitSource /\ [][NextSource]_vars

----------------------------------------------------------------------------
(* Vocabulary of the properties.  Everything here is read off the inputs   *)
(* and the emitted snapshots, not off the Engine's lifecycle bookkeeping.  *)

SingleMode == ~IsNone(coin) /\ pc \in {"single", "done"}

MultiMode == IsNone(coin) /\ pc \in {"multi", "done"}

\* the snapshot and the fill of 0-based index i
Snap(i) == history[i + 1]
FillAt(i) == fills[i + 1]

Emitted == 0..(Len(history) - 1)

\* the position was flat before fill i was applied (single-coin mode)
FlatBefore(i) == i = 0 \/ is_flat(Snap(i - 1))

\* the index of the fill that opened the lifecycle snapshot i belongs to
RECURSIVE LifecycleOpen(_)
LifecycleOpen(i) == IF FlatBefore(i) THEN i ELSE LifecycleOpen(i - 1)

\* the fills from the lifecycle's opening fill through fill i
LifecycleSoFar(i) == LifecycleOpen(i)..i

Matched == Val(builder_fill_indices)

RECURSIVE SumPnl(_)
SumPnl(i) == IF i < 0 THEN 0 ELSE SumPnl(i - 1) + FillAt(i).closedPnl

----------------------------------------------------------------------------
(* C1.  The Engine emits exactly one PositionState per input fill, in      *)
(* input order, in both modes and with or without a MatchResult: while     *)
(* the loop runs the history holds one snapshot per fill processed, at     *)
(* the return it holds one per input fill, snapshot i carries the          *)
(* timestamp of fill i (fills with equal timestamps are not merged), and   *)
(* an empty input returns an empty history.                                *)
C1_OneSnapshotPerFill ==
    /\ pc \in {"single", "multi"} => Len(history) = fill_idx
    /\ pc = "done" => Len(history) = Len(fills)
    /\ \A i \in Emitted : i < Len(fills) /\ Snap(i).timeMs = FillAt(i).time

\* a returned history of at least two fills whose first two fills tie
C1_Witness ==
    /\ pc = "done"
    /\ Len(fills) >= 2
    /\ FillAt(0).time = FillAt(1).time
    /\ Len(history) = Len(fills)

(* C2.  Taint rule, single-coin mode with a MatchResult M: the verdict of  *)
(* snapshot i is never unknown, and it is tainted exactly when some fill   *)
(* index from the opening fill of i's lifecycle through i is absent from   *)
(* M.                                                                      *)
C2_TaintRule ==
    (SingleMode /\ ~IsNone(builder_fill_indices)) =>
        \A i \in Emitted :
            /\ ~IsNone(Snap(i).tainted)
            /\ Val(Snap(i).tainted) <=>
                   (\E k \in LifecycleSoFar(i) : k \notin Matched)

\* a snapshot whose own fill matched is tainted by an earlier fill of its
\* lifecycle, after an earlier lifecycle was reported clean
C2_Witness ==
    /\ SingleMode /\ pc = "done" /\ ~IsNone(builder_fill_indices)
    /\ Len(history) >= 3
    /\ LifecycleOpen(2) = 1
    /\ Matched = {0, 2}
    /\ Snap(0).tainted = Some(FALSE)
    /\ Snap(2).tainted = Some(TRUE)

(* C3 as stated.  In a lifecycle made of fills 0, 1, 2 with MatchResult    *)
(* {0, 2} the snapshots 0, 1 and 2 are all tainted, and any two snapshots  *)
(* of one lifecycle carry the same verdict.                                *)
C3_SameVerdictInLifecycle ==
    (SingleMode /\ ~IsNone(builder_fill_indices)) =>
        /\ (/\ Len(history) >= 3
            /\ LifecycleOpen(2) = 0
            /\ 0 \in Matched /\ 1 \notin Matched /\ 2 \in Matched)
           => \A i \in 0..2 : Snap(i).tainted = Some(TRUE)
        /\ \A i, j \in Emitted :
              LifecycleOpen(i) = LifecycleOpen(j)
                  => Snap(i).tainted = Snap(j).tainted

(* C3 amended.  In a lifecycle made of fills 0, 1, 2 with MatchResult      *)
(* {0, 2} snapshot 0 is clean and snapshots 1 and 2 are tainted; and in    *)
(* any lifecycle every snapshot from the first tainted one on is tainted.  *)
C3_TaintedFromFirstUnmatched ==
    (SingleMode /\ ~IsNone(builder_fill_indices)) =>
        /\ (/\ Len(history) >= 3
            /\ LifecycleOpen(2) = 0
            /\ 0 \in Matched /\ 1 \notin Matched /\ 2 \in Matched)
           => /\ Snap(0).tainted = Some(FALSE)
              /\ Snap(1).tainted = Some(TRUE)
              /\ Snap(2).tainted = Some(TRUE)
        /\ \A i, j \in Emitted :
              (/\ i < j
               /\ LifecycleOpen(i) = LifecycleOpen(j)
               /\ Snap(i).tainted = Some(TRUE))
                  => Snap(j).tainted = Some(TRUE)

\* the scenario: one lifecycle of three fills, only fill 1 unmatched
C3_Witness ==
    /\ SingleMode /\ ~IsNone(builder_fill_indices)
    /\ Len(history) >= 3
    /\ LifecycleOpen(2) = 0
    /\ 0 \in Matched /\ 1 \notin Matched /\ 2 \in Matched
    /\ Snap(2).tainted = Some(TRUE)

(* C4.  Without a MatchResult every emitted snapshot has tainted = None,   *)
(* in single-coin and in all-coins mode.                                   *)
C4_NoMatchResultUnknown ==
    IsNone(builder_fill_indices) =>
        \A i \in Emitted : Snap(i).tainted = None

\* a full single-coin history reconstructed without a MatchResult
C4_Witness ==
    /\ pc = "done" /\ IsNone(builder_fill_indices)
    /\ SingleMode
    /\ Len(history) = MaxFills
    /\ ~is_flat(Snap(0))
    /\ Snap(MaxFills - 1).tainted = None

(* C5 as stated.  Through get_position_history, whenever the Matcher is    *)
(* not run for the request (no builder service, or from_ms or to_ms        *)
(* missing, or builder_only off) every emitted snapshot's verdict is       *)
(* unknown.                                                                *)
C5_UnknownWithoutMatcher ==
    (pc \in {"single", "multi", "done"} /\ ~RunsMatcher) =>
        \A i \in Emitted : Snap(i).tainted = None

\* the end of the window when to_ms is not given: the time of the last fill,
\* as TradeService.get_trades determines it
AutoEnd == fills[Len(fills)].time

(* C6 as stated.  get_position_history with builder_only, a builder        *)
(* service, from_ms set and to_ms = None still matches the fills against   *)
(* the builder records up to the automatically determined end, so a        *)
(* snapshot whose lifecycle fills all have matching builder records is     *)
(* clean.                                                                  *)
C6_MatchesWithoutEndTime ==
    (/\ pc = "done" /\ SingleMode
     /\ builder_only /\ builder_service /\ Truthy(from_ms) /\ IsNone(to_ms)) =>
        \A i \in Emitted :
            (\A k \in LifecycleSoFar(i) :
                k \in match_fills(fills,
                         GetBuilderFillsForRange(builder_feed, RequestUser,
                                                 Val(from_ms), AutoEnd)))
                => Snap(i).tainted = Some(FALSE)

(* C7 as stated.  All-coins mode with a MatchResult: the combined verdict  *)
(* of the snapshot just emitted is tainted exactly when an unmatched fill  *)
(* lies in the lifecycle of a coin that holds a non-zero net size after    *)
(* this fill or in the lifecycle of the fill's own coin; a coin whose      *)
(* position was closed (net size 0) by an earlier fill and that this fill  *)
(* does not touch does not contribute.                                     *)
C7_ClosedCoinsDoNotContribute ==
    (MultiMode /\ ~IsNone(builder_fill_indices) /\ history # <<>>) =>
        LET i == Len(history) - 1
            contributing ==
                {c \in DOMAIN coin_lifecycles :
                    \/ c = FillAt(i).coin
                    \/ coin_positions[c].net_size # 0}
        IN  Val(Snap(i).tainted) <=>
                \E c \in contributing :
                    \E idx \in Elems(coin_lifecycles[c]) : idx \notin Matched

(* C8 as stated.  Single-coin mode: every emitted snapshot that is flat    *)
(* has netSize = 0 and avgEntryPx = 0.                                     *)
C8_FlatMeansZero ==
    SingleMode =>
        \A i \in Emitted :
            is_flat(Snap(i)) =>
                Snap(i).netSize = 0 /\ Snap(i).avgEntryPx = Zero

C10_OpeningStep ==
    SingleMode =>
        /\ \A i \in Emitted :
              (FlatBefore(i) /\ signed_size(FillAt(i)) # 0) =>
                  /\ Snap(i).netSize = signed_size(FillAt(i))
                  /\ Snap(i).avgEntryPx = Whole(FillAt(i).px)
                  /\ ~IsNone(builder_fill_indices) =>
                         Snap(i).tainted = Some(i \notin Matched)
        /\ history # <<>> =>
              LET i == Len(history) - 1 IN
              (FlatBefore(i) /\ signed_size(FillAt(i)) # 0) =>
                  /\ lifecycle_fills = <<i>>
                  /\ lifecycle_start_idx = Some(i)

\* a second lifecycle opens after a tainted one was closed, and is clean
C10_Witness ==
    /\ SingleMode /\ ~IsNone(builder_fill_indices)
    /\ Len(history) = 3
    /\ ~is_flat(Snap(0)) /\ Snap(1).netSize = 0 /\ ~is_flat(Snap(2))
    /\ Snap(1).tainted = Some(TRUE)
    /\ Snap(2).tainted = Some(FALSE)
    /\ lifecycle_fills = <<2>>

----------------------------------------------------------------------------
(* The branch a non-opening fill takes, read off the snapshot before it    *)
(* and the fill (single-coin mode).                                        *)

\* the net size before fill i and the sum the Engine forms
NetBefore(i) == Snap(i - 1).netSize
NewSize(i) == NetBefore(i) + signed_size(FillAt(i))

Adding(i) ==
    ~FlatBefore(i) /\ SameDirection(NetBefore(i), signed_size(FillAt(i)))

\* a fill of the sign opposite to the position
Reducing(i) ==
    /\ ~FlatBefore(i)
    /\ \/ NetBefore(i) > 0 /\ signed_size(FillAt(i)) < 0
       \/ NetBefore(i) < 0 /\ signed_size(FillAt(i)) > 0

Closing(i) == Reducing(i) /\ Abs(NewSize(i)) < EPS

Flipping(i) ==
    /\ Reducing(i) /\ Abs(NewSize(i)) >= EPS
    /\ (NewSize(i) > 0) # (NetBefore(i) > 0)

PartiallyClosing(i) ==
    /\ Reducing(i) /\ Abs(NewSize(i)) >= EPS
    /\ (NewSize(i) > 0) = (NetBefore(i) > 0)

\* the index of the snapshot emitted last
Last == Len(history) - 1

(* C11.  Adding step, single-coin mode: when the position is non-flat and  *)
(* fill i has the sign of the net size, netSize becomes net + s, the new   *)
(* average satisfies |net'| * avg' = |net| * avg + |s| * price, and the    *)
(* fill's index is appended to the current lifecycle.  Two equal buys at   *)
(* 100 and 110 give twice the size at an average of 105.                   *)
C11_AddingStep ==
    SingleMode =>
        /\ \A i \in Emitted :
              Adding(i) =>
                  LET old == Snap(i - 1).avgEntryPx
                      new == Snap(i).avgEntryPx
                      s == signed_size(FillAt(i))
                  IN  /\ Snap(i).netSize = NetBefore(i) + s
                      /\ Abs(Snap(i).netSize) * new.n * old.d =
                             (Abs(NetBefore(i)) * old.n
                                 + Abs(s) * FillAt(i).px * old.d) * new.d
        /\ (history # <<>> /\ Adding(Last)) =>
              /\ Len(lifecycle_fills) >= 2
              /\ lifecycle_fills[Len(lifecycle_fills)] = Last
              /\ Elems(lifecycle_fills) = LifecycleSoFar(Last)
        /\ (/\ Len(history) >= 2
            /\ signed_size(FillAt(0)) = 2 /\ signed_size(FillAt(1)) = 2)
           => Snap(1).netSize = 4 /\ Snap(1).avgEntryPx = Whole(105)

\* an add of a size different from the position's: the average is not the
\* plain mean of the two prices
C11_Witness ==
    /\ SingleMode /\ Len(history) = 2
    /\ signed_size(FillAt(0)) = 2 /\ signed_size(FillAt(1)) = 4
    /\ Snap(1).netSize = 6
    /\ Snap(1).avgEntryPx = Frac(320, 3)
    /\ lifecycle_fills = <<0, 1>>

(* C12.  Full close, single-coin mode: when a fill of the opposite sign    *)
(* brings net + s below the flat threshold the snapshot has netSize = 0    *)
(* and avgEntryPx = 0, the closing fill's index is appended to the         *)
(* lifecycle it closes, and the closing snapshot's verdict counts every    *)
(* fill of that lifecycle, the closing one included.                       *)
C12_FullClose ==
    SingleMode =>
        /\ \A i \in Emitted :
              Closing(i) =>
                  /\ Snap(i).netSize = 0
                  /\ Snap(i).avgEntryPx = Zero
                  /\ ~IsNone(builder_fill_indices) =>
                         Snap(i).tainted =
                             Some(\E k \in LifecycleSoFar(i) : k \notin Matched)
        /\ (history # <<>> /\ Closing(Last)) =>
              /\ lifecycle_fills[Len(lifecycle_fills)] = Last
              /\ Elems(lifecycle_fills) = LifecycleSoFar(Last)
              /\ lifecycle_start_idx = Some(LifecycleOpen(Last))

\* a lifecycle whose closing fill alone is unmatched: clean, then tainted
C12_Witness ==
    /\ SingleMode /\ ~IsNone(builder_fill_indices)
    /\ Len(history) = 2
    /\ Closing(1)
    /\ 0 \in Matched /\ 1 \notin Matched
    /\ Snap(0).tainted = Some(FALSE)
    /\ Snap(1).tainted = Some(TRUE)
    /\ Snap(1).netSize = 0 /\ Snap(1).avgEntryPx = Zero

(* C13.  Flip, single-coin mode: when a fill of the opposite sign leaves   *)
(* a non-flat net size of the other sign, the snapshot has netSize =       *)
(* net + s and avgEntryPx = the fill's price.                              *)
C13_Flip ==
    SingleMode =>
        \A i \in Emitted :
            Flipping(i) =>
                /\ Snap(i).netSize = NewSize(i)
                /\ Snap(i).avgEntryPx = Whole(FillAt(i).px)

\* long 2 at 100, then a sell of 4 at 110: short 2 at 110
C13_Witness ==
    /\ SingleMode /\ Len(history) >= 2
    /\ Snap(0).netSize = 2 /\ Snap(0).avgEntryPx = Whole(100)
    /\ signed_size(FillAt(1)) = -4
    /\ Snap(1).netSize = -2 /\ Snap(1).avgEntryPx = Whole(110)

(* C14.  Partial close, single-coin mode: when a fill of the opposite      *)
(* sign leaves a non-flat net size of the same sign, netSize becomes       *)
(* net + s and avgEntryPx is the one of the snapshot before.               *)
C14_PartialClose ==
    SingleMode =>
        \A i \in Emitted :
            PartiallyClosing(i) =>
                /\ Snap(i).netSize = NewSize(i)
                /\ Snap(i).avgEntryPx = Snap(i - 1).avgEntryPx

\* long 4 at 100, then a sell of 2 at 110: long 2, still at 100
C14_Witness ==
    /\ SingleMode /\ Len(history) >= 2
    /\ Snap(0).netSize = 4
    /\ signed_size(FillAt(1)) = -2
    /\ Snap(1).netSize = 2 /\ Snap(1).avgEntryPx = Whole(100)

(* C15.  A flip does not start a new lifecycle, single-coin mode with a    *)
(* MatchResult: the lifecycle's membership is kept across the flip, so a   *)
(* fill unmatched before the flip makes the flipping snapshot and every    *)
(* later snapshot tainted until the position returns to flat.              *)
C15_FlipKeepsLifecycle ==
    (SingleMode /\ ~IsNone(builder_fill_indices)) =>
        /\ \A i, j \in Emitted :
              (/\ Flipping(i) /\ i <= j
               /\ \A k \in i..(j - 1) : ~is_flat(Snap(k))
               /\ \E k \in LifecycleOpen(i)..(i - 1) : k \notin Matched)
                  => Snap(j).tainted = Some(TRUE)
        /\ (history # <<>> /\ Flipping(Last)) =>
              /\ lifecycle_start_idx = Some(LifecycleOpen(Last))
              /\ Elems(lifecycle_fills) = LifecycleSoFar(Last)
              /\ Len(lifecycle_fills) >= 2

\* the opening buy is the only unmatched fill; the position flips short and
\* is added to: both snapshots after the flip are tainted
C15_Witness ==
    /\ SingleMode /\ ~IsNone(builder_fill_indices)
    /\ Len(history) = 3
    /\ Matched = {1, 2}
    /\ Flipping(1) /\ Adding(2)
    /\ Snap(1).tainted = Some(TRUE)
    /\ Snap(2).tainted = Some(TRUE)

(* C16.  Taint is monotone within a lifecycle, single-coin mode with a     *)
(* fixed MatchResult: a snapshot that follows a tainted snapshot of the    *)
(* same lifecycle is tainted, and a snapshot emitted before the first      *)
(* unmatched fill of its lifecycle is clean.                               *)
C16_TaintMonotone ==
    (SingleMode /\ ~IsNone(builder_fill_indices)) =>
        /\ \A j \in Emitted :
              (/\ ~FlatBefore(j)
               /\ Snap(j - 1).tainted = Some(TRUE))
                  => Snap(j).tainted = Some(TRUE)
        /\ \A i \in Emitted :
              (\A k \in LifecycleSoFar(i) : k \in Matched)
                  => Snap(i).tainted = Some(FALSE)

\* a lifecycle of three fills whose first fill alone is unmatched
C16_Witness ==
    /\ SingleMode /\ ~IsNone(builder_fill_indices)
    /\ Len(history) = 3
    /\ LifecycleOpen(2) = 0
    /\ Matched = {1, 2}
    /\ \A i \in 0..2 : Snap(i).tainted = Some(TRUE)

(* C17.  Prefix consistency, both modes, with or without a MatchResult:    *)
(* for every k up to the number of snapshots emitted, the Engine run on    *)
(* the first k fills alone returns exactly the first k snapshots of the    *)
(* run on the whole list; fills after k change nothing of them.            *)
C17_PrefixConsistency ==
    pc \in {"single", "multi", "done"} =>
        \A k \in 0..Len(history) :
            reconstruct_position_history(SubSeq(fills, 1, k), coin,
                                         builder_fill_indices)
                = SubSeq(history, 1, k)

\* the run on three fills is over; its lifecycle was tainted by fill 2 only
\* and the two snapshots emitted before are still the clean ones the run
\* on the first two fills returns
C17_Witness ==
    /\ pc = "done" /\ SingleMode /\ ~IsNone(builder_fill_indices)
    /\ Len(history) = 3
    /\ LifecycleOpen(2) = 0
    /\ Matched = {0, 1}
    /\ Snap(0).tainted = Some(FALSE)
    /\ Snap(1).tainted = Some(FALSE)
    /\ Snap(2).tainted = Some(TRUE)
    /\ reconstruct_position_history(SubSeq(fills, 1, 2), coin,
                                    builder_fill_indices)
           = SubSeq(history, 1, 2)

(* C18.  Determinism and statelessness: whatever calls the Engine served   *)
(* before, the history a call returns is the function of its arguments     *)
(* (fills, coin, MatchResult); a call repeated with the arguments of the   *)
(* first call, directly or after a call with other arguments, returns the  *)
(* history the first call returned; and the arguments are the ones the     *)
(* caller passed, unmodified.                                              *)
C18_Deterministic ==
    /\ pc = "done" =>
           history = reconstruct_position_history(fills, coin,
                                                  builder_fill_indices)
    /\ ~IsNone(previous) =>
           /\ Args = Val(previous).args
           /\ (pc = "done" /\ Args = Val(previous).first.args)
                  => history = Val(previous).first.history

\* the repetition of a three-fill single-coin call has returned, after a
\* call with other arguments ran in between and left its locals behind
C18_Witness ==
    /\ pc = "done" /\ ~IsNone(previous)
    /\ Args = Val(previous).first.args
    /\ ~IsNone(coin) /\ ~IsNone(builder_fill_indices)
    /\ Len(fills) = 3 /\ Len(history) = 3
    /\ coin_lifecycles # <<>>
    /\ Snap(2).realizedPnl = 30
    /\ Snap(2).tainted = Some(TRUE)
    /\ history = Val(previous).first.history

\* the fills of coin c among the fills processed so far, and their indices
\* in the whole list
OwnFills(c) == SelectSeq(SubSeq(fills, 1, fill_idx), LAMBDA f : f.coin = c)
OwnIndices(c) ==
    SelectSeq([k \in 1..fill_idx |-> k - 1], LAMBDA i : FillAt(i).coin = c)

\* the single-coin reconstruction of coin c from its own fills alone
Alone(c) == SingleLoop(OwnFills(c), Some(c), None, Len(OwnFills(c))).st

(* C19.  All-coins mode: every emitted snapshot carries coin "ALL",        *)
(* netSize = 0 and avgEntryPx = 0 whatever the positions are, while net    *)
(* size, average price and lifecycle are tracked per coin: each coin's     *)
(* running state is the one its own fills alone produce, so a fill of one  *)
(* coin leaves every other coin's state and lifecycle as they were.        *)
C19_AllAssetsShape ==
    MultiMode =>
        /\ \A i \in Emitted :
              /\ Snap(i).coin = "ALL"
              /\ Snap(i).netSize = 0
              /\ Snap(i).avgEntryPx = Zero
        /\ DOMAIN coin_positions = {FillAt(i).coin : i \in 0..(fill_idx - 1)}
        /\ DOMAIN coin_lifecycles = DOMAIN coin_positions
        /\ \A c \in DOMAIN coin_positions :
              /\ coin_positions[c] =
                     [net_size |-> Alone(c).net_size,
                      avg_entry_px |-> Alone(c).avg_entry_px]
              /\ coin_lifecycles[c] =
                     [k \in DOMAIN Alone(c).lifecycle_fills |->
                         OwnIndices(c)[Alone(c).lifecycle_fills[k] + 1]]

\* BTC is long at an averaged price, a fill of ETH came in between, and
\* the snapshots show none of it
C19_Witness ==
    /\ MultiMode /\ Len(history) = 3
    /\ FillAt(0).coin = "BTC" /\ FillAt(1).coin = "ETH"
    /\ FillAt(2).coin = "BTC"
    /\ coin_positions["BTC"] = [net_size |-> 6, avg_entry_px |-> Frac(340, 3)]
    /\ coin_positions["ETH"] = [net_size |-> -2, avg_entry_px |-> Whole(110)]
    /\ coin_lifecycles["BTC"] = <<0, 2>>
    /\ coin_lifecycles["ETH"] = <<1>>
    /\ \A i \in Emitted : Snap(i).coin = "ALL" /\ Snap(i).netSize = 0

\* what one iteration of the scan may do to the two sets
GreedyStep ==
    (pc = "match" /\ api_idx' = api_idx + 1) =>
        LET candidates == Candidates(api_idx, unmatched_builder)
        IN  IF candidates = {}
            THEN /\ matched_indices' = matched_indices
                 /\ unmatched_builder' = unmatched_builder
            ELSE /\ matched_indices' = matched_indices \cup {api_idx}
                 /\ \E b \in candidates :
                       /\ \A c \in candidates : b <= c
                       /\ unmatched_builder' = unmatched_builder \ {b}

(* C20.  Greedy first-candidate matching: for each API fill, in list       *)
(* order, match_fills consumes the builder fill of the lowest list index   *)
(* that is still unconsumed and meets all criteria, whether or not a       *)
(* later record is closer in time or price, and consumes nothing when no   *)
(* record meets them; the set returned is the one the loop built.          *)
C20_GreedyFirstCandidate ==
    /\ [](pc = "matched" => matched_indices = match_fills(fills, builder_feed))
    /\ [][GreedyStep]_vars

\* the first API fill (t = 900) took record 0 (t = 10, price 0.005% off)
\* although record 1 (t = 1000, same price) meets the criteria too
C20_Witness ==
    /\ pc = "match" /\ api_idx = 1
    /\ Len(builder_feed) = 2
    /\ fills[1].time = 900
    /\ builder_feed[1].time_ms = 10 /\ builder_feed[1].px = MatchPx + 5
    /\ builder_feed[2].time_ms = 1000 /\ builder_feed[2].px = MatchPx
    /\ Matches(fills[1], builder_feed[1])
    /\ Matches(fills[1], builder_feed[2])
    /\ matched_indices = {0}
    /\ unmatched_builder = {1}

----------------------------------------------------------------------------
(* The match criteria as the Matcher contract words them.                  *)

\* |a - b| / a < 0.0001, for a > 0
RelativelyClose(a, b) == Abs(a - b) * 10000 < a

\* time, coin, price and size are within tolerance
CloseEnough(api_fill, record) ==
    /\ Abs(api_fill.time - record.time_ms) <= 1000
    /\ api_fill.coin = record.coin
    /\ RelativelyClose(api_fill.px, record.px)
    /\ RelativelyClose(api_fill.sz, record.sz)

\* the side the contract expects for the four position labels
ContractSide(dir) ==
    IF dir \in {"Open Long", "Close Short"} THEN "Bid" ELSE "Ask"

PositionLabels == {"Open Long", "Close Long", "Open Short", "Close Short"}

\* the code's side test, for the label of the API fill
SideAgrees(api_fill, record) ==
    \/ IsNone(ExpectedSide(api_fill.dir))
    \/ Val(ExpectedSide(api_fill.dir)) = record.side

\* one iteration of the scan decides by the criteria
MatchDecision ==
    (pc = "match" /\ api_idx' = api_idx + 1) =>
        /\ api_idx \in matched_indices' <=>
               \E b \in unmatched_builder :
                   /\ CloseEnough(fills[api_idx + 1], builder_feed[b + 1])
                   /\ SideAgrees(fills[api_idx + 1], builder_feed[b + 1])
        /\ matched_indices' \ {api_idx} = matched_indices

(* C21.  Match decision: API fill i enters the MatchResult exactly when,   *)
(* at the moment it is processed, some builder fill not yet consumed is    *)
(* within 1000 ms, of the same coin, within 0.0001 of the API price and    *)
(* of the API size relatively, and of the expected side when there is      *)
(* one; otherwise it stays out, and no other index enters or leaves.       *)
C21_MatchDecision == [][MatchDecision]_vars

\* a record exactly 1000 ms away, one cent off and 0.009% smaller matched
C21_Witness ==
    /\ pc = "matched"
    /\ Len(fills) = 2 /\ Len(builder_feed) = 1
    /\ fills[1].dir = "Open Long"
    /\ builder_feed[1] = [time_ms |-> 11000, user |-> RequestUser,
                          coin |-> "BTC", side |-> "Bid",
                          px |-> 5000001, sz |-> 99991]
    /\ matched_indices = {0}

(* C22.  One-to-one consumption: every match consumes one builder fill     *)
(* that no other API fill consumed, so the MatchResult holds indices of    *)
(* API fills already processed, its size is the number of builder fills    *)
(* consumed and at most min(number of API fills, number of builder         *)
(* fills), and it is empty when there are no builder fills.                *)
C22_OneToOne ==
    pc \in {"match", "matched"} =>
        /\ matched_indices \subseteq 0..(api_idx - 1)
        /\ unmatched_builder \subseteq 0..(Len(builder_feed) - 1)
        /\ Cardinality(matched_indices) + Cardinality(unmatched_builder)
               = Len(builder_feed)
        /\ Cardinality(matched_indices) <= Len(fills)
        /\ Cardinality(matched_indices) <= Len(builder_feed)
        /\ builder_feed = <<>> => matched_indices = {}

\* two API fills that both meet the criteria of the only builder fill: the
\* first consumed it, the second stayed unmatched
C22_Witness ==
    /\ pc = "matched"
    /\ Len(fills) = 2 /\ Len(builder_feed) = 1
    /\ Matches(fills[1], builder_feed[1])
    /\ Matches(fills[2], builder_feed[1])
    /\ matched_indices = {0}
    /\ unmatched_builder = {}

\* the builder fill of the matching scenario: 500 ms later, Bid, 50000.01,
\* size 0.0999
ScenarioRecord ==
    [time_ms |-> 10500, user |-> RequestUser, coin |-> "BTC",
     side |-> "Bid", px |-> 5000001, sz |-> 99900]

Scenario ==
    /\ pc = "matched"
    /\ Len(fills) = 1 /\ fills[1].dir = "Open Long"
    /\ builder_feed = <<ScenarioRecord>>

(* C23 as stated.  The API fill {T, BTC, 50000, 0.1, "Open Long"} is       *)
(* matched against the single builder fill {T + 500 ms, BTC, Bid,          *)
(* 50000.01, 0.0999}: index 0 is in the MatchResult.                       *)
C23_ScenarioMatches == Scenario => 0 \in matched_indices

(* C23 amended.  Against the single builder fill {T + 500 ms, BTC, Bid,    *)
(* 50000.01, 0.0999} the API fill is not matched, because 0.0999 differs   *)
(* from 0.1 by 0.1% of the size; against the same builder fill with size   *)
(* 0.099991 it is matched.                                                 *)
C23_ScenarioWithinTolerance ==
    /\ Scenario => matched_indices = {}
    /\ (/\ pc = "matched"
        /\ Len(fills) = 1 /\ fills[1].dir = "Open Long"
        /\ builder_feed = <<[ScenarioRecord EXCEPT !.sz = 99991]>>)
       => matched_indices = {0}

\* the scenario has run
C23_Witness == Scenario /\ api_idx = 1 /\ unmatched_builder = {0}

\* a match made for a fill carrying one of the four position labels consumes
\* a builder fill within tolerance whose side is the contract's
SideRespected ==
    (/\ pc = "match"
     /\ api_idx' = api_idx + 1
     /\ fills[api_idx + 1].dir \in PositionLabels) =>
        /\ \A b \in unmatched_builder \ unmatched_builder' :
               builder_feed[b + 1].side = ContractSide(fills[api_idx + 1].dir)
        /\ api_idx \in matched_indices' =>
               \E b \in unmatched_builder :
                   /\ CloseEnough(fills[api_idx + 1], builder_feed[b + 1])
                   /\ builder_feed[b + 1].side
                          = ContractSide(fills[api_idx + 1].dir)

(* C24.  Side expectation: Open Long and Close Short expect Bid, Close     *)
(* Long and Open Short expect Ask, and a fill carrying one of these        *)
(* labels is matched only to a builder fill of the expected side, even     *)
(* when a builder fill of the other side is within every tolerance.        *)
C24_SideExpectation ==
    /\ [](\A dir \in PositionLabels :
              ExpectedSide(dir) = Some(ContractSide(dir)))
    /\ [][SideRespected]_vars

\* an Open Long fill and an Ask record within every tolerance: not matched
C24_Witness ==
    /\ pc = "matched"
    /\ Len(fills) = 1 /\ fills[1].dir = "Open Long"
    /\ Len(builder_feed) = 1
    /\ CloseEnough(fills[1], builder_feed[1])
    /\ builder_feed[1].side = "Ask"
    /\ matched_indices = {}

(* C25.  Unknown direction labels: for a fill whose label is none of the   *)
(* four position labels (a flip label for one) the side of the candidate   *)
(* is not checked: the first API fill is matched exactly when some         *)
(* builder fill is within the other tolerances, whatever its side.         *)
C25_UnknownLabelsSkipSide ==
    (/\ pc = "matched"
     /\ Len(fills) >= 1
     /\ fills[1].dir \notin PositionLabels) =>
        (0 \in matched_indices <=>
            \E b \in 1..Len(builder_feed) :
                CloseEnough(fills[1], builder_feed[b]))

----------------------------------------------------------------------------
(* The Builder Feed: requests and the cache.                               *)

\* the coroutines waiting for the answer to a request for day d sent by
\* service s
Waiting(s, d) ==
    {t \in Tasks : /\ tasks[t].pc = "get"
                   /\ tasks[t].svc = s
                   /\ tasks[t].date = d}

(* C26.  Fetch-once under concurrency: on one BuilderService no two        *)
(* requests for the same date are in flight at the same time, whatever     *)
(* the interleaving of the calls: a call for a date that is being fetched  *)
(* sends no request of its own.                                            *)
C26_FetchOnce ==
    \A s \in Services, d \in Dates : Cardinality(Waiting(s, d)) <= 1

\* a request is sent only for a day that no BuilderService has cached
RequestsOnlyUnfetched ==
    \A d \in Dates :
        requests'[d] > requests[d] =>
            \A s \in Services : d \notin DOMAIN csv_cache[s]

(* C27.  Process-lifetime cache: once a day has been fetched and cached by *)
(* any call, no later call sends another request for that day.             *)
C27_ProcessLifetimeCache == [][RequestsOnlyUnfetched]_vars

\* the answer 403 or 404 does not raise, and [] is cached and returned
AbsentAnswerCached ==
    \A t \in Tasks :
        (/\ tasks[t].pc = "get"
         /\ tasks'[t] # tasks[t]
         /\ resource[tasks[t].date] \in Absent) =>
            /\ tasks'[t].pc # "raised"
            /\ tasks[t].date \in DOMAIN csv_cache'[tasks[t].svc]
            /\ csv_cache'[tasks[t].svc][tasks[t].date] = <<>>
            /\ tasks[t].op = "fetch" =>
                   /\ tasks'[t].pc = "done"
                   /\ tasks'[t].result = Some(<<>>)

\* a fetch_builder_csv call for a cached date returns the cached list and
\* sends no request
CachedCallAnswered ==
    \A t \in Tasks :
        (/\ tasks[t].pc = "idle"
         /\ tasks'[t].op = "fetch"
         /\ tasks'[t].date \in DOMAIN csv_cache["shared"]) =>
            /\ tasks'[t].pc = "done"
            /\ tasks'[t].result = Some(csv_cache["shared"][tasks'[t].date])
            /\ requests' = requests

\* a coroutine sends a request only for a date its service has not cached
RequestsOnlyUncached ==
    \A t \in Tasks :
        (tasks'[t].pc = "get" /\ tasks'[t] # tasks[t]) =>
            tasks'[t].date \notin DOMAIN csv_cache'[tasks'[t].svc]

\* the cache holds [] for an absent day and the parsed rows for a day that
\* was fetched, and nothing else
CacheHoldsTheDay ==
    \A s \in Services :
        \A d \in DOMAIN csv_cache[s] :
            /\ resource[d] \in Absent \cup {"200"}
            /\ csv_cache[s][d] =
                   IF resource[d] \in Absent THEN <<>> ELSE Payload(d)

(* C28.  Absent day is cached as empty: on 403 or 404 fetch_builder_csv    *)
(* returns [] without raising and caches []; every later call for a        *)
(* cached date on the same BuilderService returns the cached list (empty   *)
(* for an absent day, the parsed rows for a fetched day) and sends no      *)
(* request.                                                                *)
C28_AbsentDayCached ==
    /\ []CacheHoldsTheDay
    /\ [][AbsentAnswerCached /\ CachedCallAnswered /\ RequestsOnlyUncached]_vars

\* two fetch_builder_csv calls, one after the other, for an absent day:
\* both returned [], one request was sent
C28_Witness ==
    \E d \in Dates :
        /\ resource[d] \in Absent
        /\ requests[d] = 1
        /\ \A t \in Tasks :
               /\ tasks[t].pc = "done"
               /\ tasks[t].op = "fetch"
               /\ tasks[t].date = d
               /\ tasks[t].result = Some(<<>>)

\* the days of the window [start_ms, end_ms]
WindowDays(start_ms, end_ms) == DateStr(start_ms)..DateStr(end_ms)

\* every record of the list is in the result
AllReturned(list, result) ==
    \A i \in 1..Len(list) : \E j \in 1..Len(result) : result[j] = list[i]

(* C29.  Builder-day-unavailable: when get_builder_fills_for_range over a  *)
(* window of several days has returned and a day of the window was         *)
(* absent, every other day of the window was fetched and its records of    *)
(* the user within the window are in the result.                           *)
C29_AbsentDayDoesNotStopLoop ==
    \A t \in Tasks :
        (/\ tasks[t].pc = "done"
         /\ tasks[t].op \in {"range", "trades"}
         /\ DateStr(tasks[t].start_ms) < DateStr(tasks[t].end_ms)
         /\ \E d \in WindowDays(tasks[t].start_ms, tasks[t].end_ms) :
                resource[d] \in Absent) =>
            \A d \in WindowDays(tasks[t].start_ms, tasks[t].end_ms) :
                resource[d] = "200" =>
                    /\ requests[d] >= 1
                    /\ AllReturned(UserFills(Payload(d), RequestUser,
                                             tasks[t].start_ms,
                                             tasks[t].end_ms),
                                   Val(tasks[t].result))

(* C30.  A builder feed call returns the day's data or fails: a            *)
(* fetch_builder_csv call whose request did not answer 200, 403 or 404     *)
(* (a network error, a timeout, a payload that does not decompress or      *)
(* parse) ends by raising, never by returning a list.                      *)
C30_FailureSurfaces ==
    \A t \in Tasks :
        (/\ tasks[t].op = "fetch"
         /\ tasks[t].pc \in {"done", "raised"}
         /\ resource[tasks[t].date] \notin Absent \cup {"200"}) =>
            tasks[t].pc = "raised"

(* C31.  Day coverage: when get_builder_fills_for_range has returned on a  *)
(* BuilderService of its own and no request failed, the service has        *)
(* fetched every day from the day of start_ms to the day of end_ms, each   *)
(* with one request, and every record of the user within the window is in  *)
(* the result.                                                             *)
C31_DayCoverage ==
    \A t \in Tasks :
        (/\ tasks[t].pc = "done"
         /\ tasks[t].op = "trades"
         /\ \A u \in Tasks \ {t} : tasks[u].pc = "idle"
         /\ \A d \in Dates : resource[d] \in Absent \cup {"200"}) =>
            /\ DOMAIN csv_cache[t]
                  = WindowDays(tasks[t].start_ms, tasks[t].end_ms)
            /\ \A d \in Dates :
                  requests[d] =
                      IF d \in WindowDays(tasks[t].start_ms, tasks[t].end_ms)
                      THEN 1 ELSE 0
            /\ \A d \in WindowDays(tasks[t].start_ms, tasks[t].end_ms) :
                  resource[d] = "200" =>
                      AllReturned(UserFills(Payload(d), RequestUser,
                                            tasks[t].start_ms,
                                            tasks[t].end_ms),
                                  Val(tasks[t].result))

----------------------------------------------------------------------------
(* Zero guards of the Matcher.                                             *)

\* the criteria that remain for an API fill of price 0 or size 0
RemainingCriteria(api_fill, record) ==
    /\ Abs(api_fill.time - record.time_ms) <= 1000
    /\ api_fill.coin = record.coin
    /\ api_fill.px # 0 => RelativelyClose(api_fill.px, record.px)
    /\ api_fill.sz # 0 => RelativelyClose(api_fill.sz, record.sz)
    /\ SideAgrees(api_fill, record)

\* a scan step for a fill of price 0 or size 0 consumes the first unconsumed
\* record meeting the remaining criteria, and matches nothing without one
ZeroGuardStep ==
    (/\ pc = "match"
     /\ api_idx' = api_idx + 1
     /\ fills[api_idx + 1].px = 0 \/ fills[api_idx + 1].sz = 0) =>
        LET remaining ==
                {b \in unmatched_builder :
                    RemainingCriteria(fills[api_idx + 1], builder_feed[b + 1])}
        IN  IF remaining = {}
            THEN /\ matched_indices' = matched_indices
                 /\ unmatched_builder' = unmatched_builder
            ELSE /\ matched_indices' = matched_indices \cup {api_idx}
                 /\ unmatched_builder' =
                        unmatched_builder \ {SetMin(remaining)}

(* C35.  Zero guards in matching: for an API fill of price 0 the price     *)
(* check passes for every candidate, for one of size 0 the size check      *)
(* passes, so the fill matches the first unconsumed candidate meeting the  *)
(* remaining criteria.                                                     *)
C35_ZeroGuards == [][ZeroGuardStep]_vars

\* a fill of price 0 and size 0 against a record far off in price and size
\* followed by a second record: the first one was consumed
C35_Witness ==
    /\ pc = "matched"
    /\ Len(fills) = 1 /\ fills[1].px = 0 /\ fills[1].sz = 0
    /\ Len(builder_feed) = 2
    /\ builder_feed[1].px = 5100000 /\ builder_feed[1].sz = 50000
    /\ builder_feed[1].side = "Bid" /\ builder_feed[1].time_ms = 10500
    /\ RemainingCriteria(fills[1], builder_feed[2])
    /\ matched_indices = {0}
    /\ unmatched_builder = {1}

----------------------------------------------------------------------------
(* C38.  A fill that did not match taints its own snapshot: with a         *)
(* MatchResult supplied, in single-coin and in all-coins mode, every       *)
(* clean snapshot belongs to a fill whose index is in the MatchResult.     *)
C38_UnmatchedFillTaintsItself ==
    ((SingleMode \/ MultiMode) /\ ~IsNone(builder_fill_indices)) =>
        \A i \in Emitted :
            Snap(i).tainted = Some(FALSE) => i \in Matched

\* an all-coins history of three fills: the matched fills 0 and 1 gave clean
\* snapshots, the unmatched fill 2 a tainted one
C38_Witness ==
    /\ pc = "done" /\ MultiMode /\ ~IsNone(builder_fill_indices)
    /\ Len(history) = 3
    /\ Matched = {0, 1}
    /\ FillAt(0).coin # FillAt(1).coin
    /\ Snap(0).tainted = Some(FALSE)
    /\ Snap(1).tainted = Some(FALSE)
    /\ Snap(2).tainted = Some(TRUE)

----------------------------------------------------------------------------
\* the history the Engine returns for the same fills in the other mode
OtherMode ==
    reconstruct_position_history(
        fills, IF IsNone(coin) THEN Some("BTC") ELSE None,
        builder_fill_indices)

(* C39.  Single-coin and all-coins modes agree on one coin: for fills of   *)
(* one coin and any MatchResult or none, the two reconstructions give,     *)
(* snapshot by snapshot, the same verdict, cumulative realized PnL and     *)
(* timestamp; the all-coins snapshots carry the coin "ALL", net size 0     *)
(* and average entry price 0.                                              *)
C39_ModesAgreeOnOneCoin ==
    pc = "done" =>
        /\ Len(OtherMode) = Len(history)
        /\ \A k \in 1..Len(history) :
              /\ OtherMode[k].tainted = history[k].tainted
              /\ OtherMode[k].realizedPnl = history[k].realizedPnl
              /\ OtherMode[k].timeMs = history[k].timeMs
        /\ \A k \in 1..Len(history) :
              LET all == IF IsNone(coin) THEN history[k] ELSE OtherMode[k]
              IN  /\ all.coin = "ALL"
                  /\ all.netSize = 0
                  /\ all.avgEntryPx = Zero

\* a single-coin run over a lifecycle closed by fill 1 and a new one opened
\* by the matched fill 2: tainted, tainted, clean, and the all-coins run
\* gives the same verdicts with other sizes
C39_Witness ==
    /\ pc = "done" /\ ~IsNone(coin) /\ ~IsNone(builder_fill_indices)
    /\ Len(history) = 3
    /\ Matched = {1, 2}
    /\ is_flat(Snap(1)) /\ ~is_flat(Snap(2))
    /\ Snap(0).tainted = Some(TRUE)
    /\ Snap(2).tainted = Some(FALSE)
    /\ Snap(2).realizedPnl = 30
    /\ OtherMode[3].tainted = Some(FALSE)
    /\ OtherMode[3].netSize = 0 /\ Snap(2).netSize # 0

----------------------------------------------------------------------------
\* the cache of the shared BuilderService keeps every entry as it is
CacheEntriesKept ==
    \A d \in DOMAIN csv_cache["shared"] :
        /\ d \in DOMAIN csv_cache'["shared"]
        /\ csv_cache'["shared"][d] = csv_cache["shared"][d]

\* an answer that is an error other than 403 and 404 leaves the cache as
\* it is
ErrorLeavesCache ==
    \A t \in Tasks :
        (/\ tasks[t].pc = "get"
         /\ tasks'[t] # tasks[t]
         /\ resource[tasks[t].date] \notin Absent \cup {"200"}) =>
            csv_cache' = csv_cache

(* C40.  Cache entries are write-once: in every step of one                *)
(* BuilderService, concurrent fetch_builder_csv calls for one date with    *)
(* differing answers included, an entry present in the cache is neither    *)
(* removed nor replaced by a different list, and a fetch that ends in an   *)
(* error other than 403/404 leaves the cache unchanged.                    *)
C40_CacheWriteOnce == [][CacheEntriesKept /\ ErrorLeavesCache]_vars

----------------------------------------------------------------------------
\* the snapshots at which the position leaves flat
Leaves == {i \in Emitted : FlatBefore(i) /\ ~is_flat(Snap(i))}

\* the snapshot that ends the holding period begun at snapshot i: the first
\* flat one after it, the last snapshot when there is none
PeriodEnd(i) ==
    IF \E j \in i..Last : is_flat(Snap(j))
    THEN SetMin({j \in i..Last : is_flat(Snap(j))})
    ELSE Last

\* C37: get_position_lifecycles returns, in time order, one (start, end)
\* tuple per holding period of the history: start is the time of the
\* snapshot where the position leaves flat, end the time of the snapshot
\* where it is flat again or of the last snapshot when it stays open; a
\* snapshot of a sign flip is neither a start nor an end; start <= end and
\* an interval ends no later than the next one starts.
C37_LifecycleIntervals ==
    ~IsNone(lifecycle_intervals) =>
        LET result == Val(lifecycle_intervals)
        IN  /\ Len(result) = Cardinality(Leaves)
            /\ \A i \in Leaves :
                   result[Cardinality({s \in Leaves : s < i}) + 1] =
                       <<Snap(i).timeMs, Snap(PeriodEnd(i)).timeMs>>
            /\ \A k \in 1..Len(result) : result[k][1] <= result[k][2]
            /\ \A k \in 1..(Len(result) - 1) :
                   result[k][2] <= result[k + 1][1]

\* a history of four snapshots, open, flip, close, open, was cut into the
\* closed period with the flip inside and the period still open
C37_Witness ==
    /\ ~IsNone(lifecycle_intervals)
    /\ Len(history) = 4
    /\ Flipping(1)
    /\ is_flat(Snap(2))
    /\ Val(lifecycle_intervals) =
           <<<<Snap(0).timeMs, Snap(2).timeMs>>,
             <<Snap(3).timeMs, Snap(3).timeMs>>>>

----------------------------------------------------------------------------
\* the MatchResult of the get_trades call, from the code's window
TradeMatched ==
    IF fills = <<>> THEN {}
    ELSE match_fills(fills,
             GetBuilderFillsForRange(builder_feed, RequestUser,
                 ActualFrom(fills, from_ms), ActualTo(fills, to_ms)))

\* the k-th smallest element of a set of indices
RECURSIVE Nth(_, _)
Nth(S, k) == IF k = 1 THEN SetMin(S) ELSE Nth(S \ {SetMin(S)}, k - 1)

\* the fields a trade takes from its fill
FromFill(trade, fill) ==
    /\ trade.timeMs = fill.time /\ trade.coin = fill.coin
    /\ trade.px = fill.px /\ trade.sz = fill.sz
    /\ trade.closedPnl = fill.closedPnl
    /\ trade.side = (IF fill.side = "B" THEN "Buy" ELSE "Sell")

\* C36: with builder_only=True get_trades returns exactly the fills whose
\* index is in the MatchResult, in fill order, each with tainted=false and
\* builder set to the target builder (none when the MatchResult is empty);
\* with builder_only=False it returns one trade per fill, in order, with
\* tainted=false and builder=None.
C36_BuilderOnlyTradeFilter ==
    ~IsNone(trades) =>
        LET result == Val(trades)
        IN  IF builder_only
            THEN /\ Len(result) = Cardinality(TradeMatched)
                 /\ \A k \in 1..Len(result) :
                        /\ FromFill(result[k], FillAt(Nth(TradeMatched, k)))
                        /\ result[k].tainted = FALSE
                        /\ result[k].builder = Some(TargetBuilder)
            ELSE /\ Len(result) = Len(fills)
                 /\ \A k \in 1..Len(result) :
                        /\ FromFill(result[k], fills[k])
                        /\ result[k].tainted = FALSE
                        /\ result[k].builder = None

\* of two fills the second only is matched and it is the one trade returned
C36_Witness ==
    /\ ~IsNone(trades)
    /\ builder_only
    /\ Len(fills) = 2
    /\ TradeMatched = {1}
    /\ Len(Val(trades)) = 1
    /\ Val(trades)[1].px = fills[2].px

----------------------------------------------------------------------------
\* the history holds a snapshot with tainted = false
CleanSnapshot == \E i \in Emitted : Snap(i).tainted = Some(FALSE)

\* both calls of the comparison have returned in builder-only mode
Compared == pc = "done" /\ ~IsNone(trades) /\ builder_only

----------------------------------------------------------------------------
\* the call has ended with a response or with an error
RequestEnded == http.pc \in {"returned", "raised"}

\* what the call does after the attempts made so far
RetryBound ==
    /\ http.attempts <= MAX_RETRIES + 1
    /\ http.last = "200" => http.pc = "returned"
    /\ http.last \in Timeouts \cup {"429"} =>
           IF http.attempts = MAX_RETRIES + 1
           THEN http.pc = "raised"
           ELSE http.pc = "post" /\ http.retry_count = http.attempts
    /\ http.last \in {"500", "ConnectError"} => http.pc = "raised"

\* C33: one call of _make_request makes at most MAX_RETRIES + 1 = 11
\* attempts, timeouts and 429 answers counted together; the error of the
\* last allowed attempt is raised; another HTTP error or exception is
\* raised at once; every call ends with a response or an error.
C33_BoundedRetry == [](RetryBound) /\ <>(RequestEnded)

\* the eleventh attempt, after timeouts and 429 answers, was answered 429
\* and the error raised
C33_Witness ==
    /\ http.pc = "raised"
    /\ http.attempts = MAX_RETRIES + 1
    /\ http.last = "429"
    /\ http.slept = 5 * RETRY_DELAY + 5 * RATE_LIMIT_DELAY

----------------------------------------------------------------------------
\* the fills of the window, of the requested coin when one is given, in
\* feed order
WindowFills ==
    SelectSeq(source.feed, LAMBDA f :
        /\ IsNone(source.start_time_ms) \/ Val(source.start_time_ms) <= f.time
        /\ IsNone(source.end_time_ms) \/ f.time <= Val(source.end_time_ms)
        /\ IsNone(source.coin) \/ f.coin = Val(source.coin))

\* C32: for a user with fewer fills in the window than the limit of the
\* call, get_user_fills returns every fill of the window (of the requested
\* coin when a coin filter is given) exactly once, sorted by time with ties
\* in feed order, however the fills fall on pages and however many share a
\* timestamp.
C32_FillFeedComplete ==
    (source.pc = "returned" /\ Len(WindowFills) < MAX_RECENT_FILLS) =>
        source.result = WindowFills

====
